---------------------------- MODULE Spec2Model ----------------------------
(***************************************************************************)
(* Command interpreter of the ESP32-P4 firmware and the collaborators it   *)
(* drives (WiFi manager, BLE manager), modelled from                       *)
(* main/src/command_interpreter.cpp, main/src/wifi_manager.cpp and         *)
(* main/src/ble_manager.cpp.                                               *)
(*                                                                         *)
(* Text is modelled by TLA+ strings, one character per position, so the    *)
(* tokenizer, the case folding, the digit parsing and the formatting are   *)
(* computed on the characters as the code computes them.                   *)
(***************************************************************************)
EXTENDS Integers, Sequences, FiniteSets

VARIABLES
    wifi,     \* WiFiManager: its member variables and its event-group bits
    ble,      \* BLEManager: its member variables
    interp,   \* CommandInterpreter: which collaborators are attached
    last,     \* the most recent dispatch: input, track, handler, output, calls made
    relay     \* RelayManager: its member variables, the two output pins and
              \* what its most recent operation did

vars == <<wifi, ble, interp, last, relay>>

----------------------------------------------------------------------------
(* Characters and strings                                                  *)

Char(s, i) == SubSeq(s, i, i)

\* The characters std::isspace accepts in the "C" locale, which are also the
\* characters process_command_with_response trims (the vertical tab, which a
\* TLA+ string cannot hold, is left out of the inputs).
WhitespaceChars == {" ", "\t", "\n", "\r", "\f"}

\* A plausible slip: only the blank counts as whitespace
IsSpaceBlankOnly(c) == c = " "

IsSpace(c) == c \in WhitespaceChars

UpperCase == "ABCDEFGHIJKLMNOPQRSTUVWXYZ"
LowerCase == "abcdefghijklmnopqrstuvwxyz"
Digits    == "0123456789"

\* ::tolower on one character
ToLowerChar(c) ==
    IF \E i \in 1..Len(UpperCase) : Char(UpperCase, i) = c
    THEN Char(LowerCase, CHOOSE i \in 1..Len(UpperCase) : Char(UpperCase, i) = c)
    ELSE c

RECURSIVE ToLower(_)
\* std::transform(cmd.begin(), cmd.end(), cmd.begin(), ::tolower)
ToLower(s) ==
    IF s = "" THEN "" ELSE ToLowerChar(Head(s)) \o ToLower(Tail(s))

\* std::isdigit on one character
IsDigit(c) == \E i \in 1..Len(Digits) : Char(Digits, i) = c

\* c - '0' for a digit character
DigitValue(c) == (CHOOSE i \in 1..Len(Digits) : Char(Digits, i) = c) - 1

RECURSIVE NatToString(_)
NatToString(n) ==
    IF n < 10 THEN Char(Digits, n + 1)
    ELSE NatToString(n \div 10) \o Char(Digits, (n % 10) + 1)

\* std::to_string and printf("%d") of an int
to_string(n) == IF n < 0 THEN "-" \o NatToString(0 - n) ELSE NatToString(n)

RECURSIVE Spaces(_)
Spaces(n) == IF n <= 0 THEN "" ELSE " " \o Spaces(n - 1)

\* printf("%-<w>s"): left-justified, padded on the right, never truncated
PadRight(s, w) == s \o Spaces(w - Len(s))

\* printf("%<w>d") and printf("%<w>zu"): right-justified, never truncated
PadLeft(s, w) == Spaces(w - Len(s)) \o s

----------------------------------------------------------------------------
(* Tokenizer: std::istringstream >> token                                  *)

RECURSIVE SkipSpace(_, _)
\* the first position at or after i that holds no whitespace, Len(s)+1 if none
SkipSpace(s, i) ==
    IF i > Len(s) THEN i
    ELSE IF IsSpace(Char(s, i)) THEN SkipSpace(s, i + 1) ELSE i

RECURSIVE TokenEndQuoted(_, _)
\* A plausible slip: a token that opens with a double quote runs to the
\* closing quote, whitespace included
TokenEndQuoted(s, i) ==
    IF i > Len(s) THEN i
    ELSE IF Char(s, i) = "\""
         THEN LET closing == {j \in (i + 1)..Len(s) : Char(s, j) = "\""} IN
              IF closing = {} THEN Len(s) + 1
              ELSE (CHOOSE j \in closing : \A k \in closing : j <= k) + 1
         ELSE IF IsSpace(Char(s, i)) THEN i ELSE TokenEndQuoted(s, i + 1)

RECURSIVE TokenEnd(_, _)
\* the first position at or after i that holds whitespace, Len(s)+1 if none
TokenEnd(s, i) ==
    IF i > Len(s) THEN i
    ELSE IF IsSpace(Char(s, i)) THEN i ELSE TokenEnd(s, i + 1)

RECURSIVE ParseFrom(_, _)
ParseFrom(s, i) ==
    LET j == SkipSpace(s, i) IN
    IF j > Len(s) THEN <<>>
    ELSE LET k == TokenEnd(s, j) IN <<SubSeq(s, j, k - 1)>> \o ParseFrom(s, k)

parse_command(command) == ParseFrom(command, 1)

\* std::string::find_last_not_of(" \t\n\r\f\v"): a position, or 0 for npos
\* (npos + 1 wraps to 0 in the code, so erase(npos + 1) erases everything)
RECURSIVE FindLastNotOf(_, _)
FindLastNotOf(s, i) ==
    IF i = 0 THEN 0
    ELSE IF IsSpace(Char(s, i)) THEN FindLastNotOf(s, i - 1) ELSE i

\* clean_cmd.erase(find_last_not_of(ws) + 1); clean_cmd.erase(0, find_first_not_of(ws))
TrimCommand(command) ==
    LET right == SubSeq(command, 1, FindLastNotOf(command, Len(command)))
        first == SkipSpace(right, 1)
    IN  SubSeq(right, first, Len(right))

----------------------------------------------------------------------------
(* WiFiManager (main/src/wifi_manager.cpp)                                 *)

MAX_RETRY_COUNT == 5
MAX_NETWORKS == 20

\* Longest list of access-point records the radio reports for one scan
MaxAps == 2

\* The access points in range. Two of them have the same signal strength,
\* one hides its SSID.
AccessPoints ==
    { [ssid |-> "HomeNet",  rssi |-> -40, authmode |-> "WPA2_PSK"],
      [ssid |-> "CafeWiFi", rssi |-> -70, authmode |-> "OPEN"],
      [ssid |-> "Guest",    rssi |-> -40, authmode |-> "OPEN"],
      [ssid |-> "",         rssi |-> -50, authmode |-> "WEP"] }

\* What esp_wifi_scan_get_ap_records can hand over: up to MaxAps records of
\* distinct access points, in any order
ApRecordLists ==
    { r \in UNION { [1..n -> AccessPoints] : n \in 0..MaxAps } :
        \A i, j \in DOMAIN r : i # j => r[i] # r[j] }

\* The address the DHCP server hands out and the signal strength read from
\* the associated access point
StationIp == "192.168.4.2"
StationRssi == -55

Min(a, b) == IF a < b THEN a ELSE b

\* State of a WiFiManager after its constructor and a successful initialize().
\* sta, scan_active, ip are the radio's side: association state, a scan in
\* progress, the address of the network interface. aborted: an
\* ESP_ERROR_CHECK of the manager has failed and called abort().
WifiInitial ==
    [ initialized      |-> TRUE,
      connected        |-> FALSE,
      connected_ssid   |-> "",
      retry_count      |-> 0,
      scanned_networks |-> <<>>,
      bits             |-> {},
      sta              |-> "idle",
      scan_active      |-> FALSE,
      ip               |-> "",
      aborted          |-> FALSE ]

\* NetworkInfo(ssid, rssi, auth_mode)
NetworkInfo(ssid, rssi, auth_mode) ==
    [ssid |-> ssid, rssi |-> rssi, auth_mode |-> auth_mode]

RECURSIVE CollectNetworks(_, _, _)
\* the loop of lines 132-138: the first min(ap_count, MAX_NETWORKS) records,
\* those with an empty SSID skipped
CollectNetworks(records, i, n) ==
    IF i > n THEN <<>>
    ELSE (IF records[i].ssid # ""
          THEN <<NetworkInfo(records[i].ssid, records[i].rssi, records[i].authmode)>>
          ELSE <<>>) \o CollectNetworks(records, i + 1, n)

IsPermutation(a, b) ==
    /\ Len(a) = Len(b)
    /\ \E f \in [1..Len(a) -> 1..Len(a)] :
          /\ \A i, j \in 1..Len(a) : i # j => f[i] # f[j]
          /\ \A i \in 1..Len(a) : a[i] = b[f[i]]

\* std::sort with the comparator a.rssi > b.rssi: every arrangement of the
\* list that the comparator accepts as sorted (std::sort is not stable, so
\* entries of equal strength may come out in either order)
SortOutcomes(list) ==
    { s \in [1..Len(list) -> {list[i] : i \in 1..Len(list)}] :
        /\ IsPermutation(s, list)
        /\ \A i \in 1..(Len(s) - 1) : ~(s[i + 1].rssi > s[i].rssi) }

\* A plausible slip: <= where the code has <, one retry too many
WifiOnStaDisconnectedOnceMore(w) ==
    LET cleared == [w EXCEPT !.connected = FALSE, !.connected_ssid = "", !.ip = ""] IN
    IF w.retry_count <= MAX_RETRY_COUNT
    THEN [cleared EXCEPT !.sta = "connecting", !.retry_count = w.retry_count + 1]
    ELSE [cleared EXCEPT !.sta = "idle", !.bits = w.bits \cup {"WIFI_FAIL_BIT"}]

\* event_handler, WIFI_EVENT_STA_DISCONNECTED
WifiOnStaDisconnected(w) ==
    LET cleared == [w EXCEPT !.connected = FALSE, !.connected_ssid = "", !.ip = ""] IN
    IF w.retry_count < MAX_RETRY_COUNT
    THEN [cleared EXCEPT !.sta = "connecting", !.retry_count = w.retry_count + 1]
    ELSE [cleared EXCEPT !.sta = "idle", !.bits = w.bits \cup {"WIFI_FAIL_BIT"}]

\* event_handler, IP_EVENT_STA_GOT_IP
WifiOnGotIp(w) ==
    [w EXCEPT !.connected = TRUE, !.retry_count = 0, !.sta = "up",
              !.ip = StationIp,
              !.bits = w.bits \cup {"WIFI_CONNECTED_BIT"}]

\* The networks WIFI_EVENT_SCAN_DONE collects from the records, before the sort
ScanCollected(records) ==
    CollectNetworks(records, 1, Min(Len(records), MAX_NETWORKS))

\* A plausible slip: the std::sort call is missing, the list keeps the order
\* of the records
WifiOnScanDoneUnsorted(w, records, sorted) ==
    [w EXCEPT !.scanned_networks = ScanCollected(records), !.scan_active = FALSE,
              !.bits = w.bits \cup {"WIFI_SCAN_DONE_BIT"}]

\* event_handler, WIFI_EVENT_SCAN_DONE, with the records the radio reports
\* and `sorted`, the arrangement std::sort leaves
WifiOnScanDone(w, records, sorted) ==
    LET ap_count == Len(records) IN
    IF ap_count = 0
    THEN [w EXCEPT !.scanned_networks = <<>>, !.scan_active = FALSE,
                   !.bits = w.bits \cup {"WIFI_SCAN_DONE_BIT"}]
    ELSE [w EXCEPT !.scanned_networks = sorted, !.scan_active = FALSE,
                   !.bits = w.bits \cup {"WIFI_SCAN_DONE_BIT"}]

\* What the radio does while scan_networks waits (up to 10 s) for
\* WIFI_SCAN_DONE_BIT: esp_wifi_scan_start fails; or the scan-done event is
\* handled in time, with some records; or the wait times out.
ScanWaits ==
    { [start_ok |-> FALSE, done |-> FALSE, records |-> <<>>, sorted |-> <<>>],
      [start_ok |-> TRUE,  done |-> FALSE, records |-> <<>>, sorted |-> <<>>] }
    \cup
    UNION { { [start_ok |-> TRUE, done |-> TRUE, records |-> r, sorted |-> s] :
                s \in SortOutcomes(ScanCollected(r)) } : r \in ApRecordLists }

\* WiFiManager::scan_networks: the new manager state and the value returned
scan_networks(w, wait) ==
    IF ~w.initialized THEN [wifi |-> w, ret |-> FALSE]
    ELSE
      LET cleared == [w EXCEPT !.scanned_networks = <<>>,
                               !.bits = w.bits \ {"WIFI_SCAN_DONE_BIT"}] IN
      IF ~wait.start_ok THEN [wifi |-> cleared, ret |-> FALSE]
      ELSE
        LET started == [cleared EXCEPT !.scan_active = TRUE]
            after == IF wait.done
                     THEN WifiOnScanDone(started, wait.records, wait.sorted)
                     ELSE started
        IN  [wifi |-> after, ret |-> "WIFI_SCAN_DONE_BIT" \in after.bits]

\* What the radio does while connect_to_network waits (up to 30 s) for
\* WIFI_CONNECTED_BIT or WIFI_FAIL_BIT: `discs` station-disconnected events,
\* then the got-IP event (end = "got_ip"), the time-out (end = "timeout"), or
\* nothing more because the last disconnected event raised the failure bit.
\* Before the wait, esp_wifi_set_config or esp_wifi_connect may return an
\* error (end = "esp_error"), which ESP_ERROR_CHECK answers with abort().
ConnectWaits ==
    { [discs |-> k, end |-> e] : k \in 0..MAX_RETRY_COUNT, e \in {"got_ip", "timeout"} }
    \cup { [discs |-> MAX_RETRY_COUNT + 1, end |-> "fail"] }
    \cup { [discs |-> 0, end |-> "esp_error"] }

RECURSIVE WifiDisconnectedTimes(_, _)
WifiDisconnectedTimes(w, k) ==
    IF k = 0 THEN w ELSE WifiDisconnectedTimes(WifiOnStaDisconnected(w), k - 1)

\* WiFiManager::connect_to_network: the new manager state and the value returned
connect_to_network(w, ssid, password, wait) ==
    IF ~w.initialized THEN [wifi |-> w, ret |-> FALSE]
    ELSE IF ssid = "" THEN [wifi |-> w, ret |-> FALSE]
    ELSE
      LET cleared == [w EXCEPT !.retry_count = 0,
                               !.connected_ssid = ssid,
                               !.bits = w.bits \ {"WIFI_CONNECTED_BIT", "WIFI_FAIL_BIT"}]
          started == [cleared EXCEPT !.sta = "connecting"]
          lost  == WifiDisconnectedTimes(started, wait.discs)
          after == IF wait.end = "got_ip" THEN WifiOnGotIp(lost) ELSE lost
      IN  IF wait.end = "esp_error"
          THEN [wifi |-> [cleared EXCEPT !.aborted = TRUE], ret |-> FALSE]
          ELSE [wifi |-> after, ret |-> "WIFI_CONNECTED_BIT" \in after.bits]

\* WiFiManager::disconnect, esp_wifi_disconnect returning ESP_OK or not
disconnect(w, esp_ok) ==
    IF ~w.initialized THEN [wifi |-> w, ret |-> FALSE]
    ELSE IF ~esp_ok THEN [wifi |-> w, ret |-> FALSE]
    ELSE [wifi |-> [w EXCEPT !.connected = FALSE, !.connected_ssid = "",
                             !.sta = IF w.sta \in {"up", "connecting"}
                                     THEN "leaving" ELSE w.sta],
          ret |-> TRUE]

get_scanned_networks(w) == w.scanned_networks

is_connected(w) == w.connected

get_connected_ssid(w) == w.connected_ssid

get_ip_address(w) == IF ~w.connected THEN "" ELSE w.ip

get_rssi(w) == IF ~w.connected THEN 0 ELSE StationRssi

----------------------------------------------------------------------------
(* BLEManager (main/src/ble_manager.cpp)                                   *)

BLE_HS_CONN_HANDLE_NONE == 65535
MAX_DATA_LEN == 512

\* Handle NimBLE finds for the TX characteristic when ble_gatts_find_chr succeeds
TxCharHandle == 12

\* Connection handles the stack gives to a peer
ConnHandles == {0, 1}

\* Most discovery events the radio reports during one scan
MaxDiscoveries == 2

\* Advertisers in range: address bytes val[0..5], signal strength, and the
\* name field of the advertising data ("" when it carries none)
BleDevices ==
    { [addr |-> <<1, 239, 205, 171, 52, 18>>, rssi |-> -60, name |-> "Beacon"],
      [addr |-> <<254, 0, 16, 32, 48, 64>>,   rssi |-> -81, name |-> ""] }

HexDigits == "0123456789abcdef"

\* snprintf("%02x") of one byte
Hex2(b) == Char(HexDigits, (b \div 16) + 1) \o Char(HexDigits, (b % 16) + 1)

\* snprintf("%02x:%02x:%02x:%02x:%02x:%02x", val[5], ..., val[0])
FormatAddr(val) ==
    Hex2(val[6]) \o ":" \o Hex2(val[5]) \o ":" \o Hex2(val[4]) \o ":" \o
    Hex2(val[3]) \o ":" \o Hex2(val[2]) \o ":" \o Hex2(val[1])

\* State of a BLEManager after its constructor and a successful initialize(),
\* tx_handle being what ble_gatts_find_chr left in nus_tx_char_handle_ (0 when
\* it failed). radio_adv, radio_link, radio_disc are the controller's side:
\* advertising, a peer connected, a discovery procedure running.
BleInitial(tx_handle) ==
    [ initialized        |-> TRUE,
      advertising        |-> FALSE,
      connected          |-> FALSE,
      scanning           |-> FALSE,
      conn_handle        |-> BLE_HS_CONN_HANDLE_NONE,
      nus_tx_char_handle |-> tx_handle,
      device_name        |-> "ESP32-P4-WiFi",
      scan_results       |-> <<>>,
      command_callback   |-> FALSE,
      synced             |-> FALSE,
      radio_adv          |-> FALSE,
      radio_link         |-> FALSE,
      radio_disc         |-> FALSE ]

\* BLEManager::start_advertising_internal; fields_ok and start_ok are whether
\* ble_gap_adv_set_fields and ble_gap_adv_start are free of a stack failure
\* (ble_gap_adv_start also refuses while the controller already advertises)
start_advertising_internal(b, fields_ok, start_ok) ==
    IF ~b.initialized THEN b
    ELSE IF ~fields_ok THEN b
    ELSE IF ~start_ok \/ b.radio_adv THEN b
    ELSE [b EXCEPT !.advertising = TRUE, !.radio_adv = TRUE]

\* BLEManager::start_advertising(device_name): new state and value returned
start_advertising(b, device_name, fields_ok, start_ok) ==
    IF ~b.initialized THEN [ble |-> b, ret |-> FALSE]
    ELSE IF b.advertising THEN [ble |-> b, ret |-> TRUE]
    ELSE
      LET named == IF device_name # "" /\ device_name # b.device_name
                   THEN [b EXCEPT !.device_name = device_name]
                   ELSE b
      IN  [ble |-> start_advertising_internal(named, fields_ok, start_ok),
           ret |-> TRUE]

\* ble_gap_adv_stop: 0, BLE_HS_EALREADY when nothing is advertising, or a failure
ble_gap_adv_stop(b, fail) ==
    IF fail THEN "ERROR" ELSE IF b.radio_adv THEN "OK" ELSE "BLE_HS_EALREADY"

\* BLEManager::stop_advertising
stop_advertising(b, fail) ==
    IF ~b.advertising THEN [ble |-> b, ret |-> FALSE]
    ELSE
      LET rc == ble_gap_adv_stop(b, fail) IN
      IF rc = "OK" \/ rc = "BLE_HS_EALREADY"
      THEN [ble |-> [b EXCEPT !.advertising = FALSE, !.radio_adv = FALSE],
            ret |-> TRUE]
      ELSE [ble |-> b, ret |-> FALSE]

\* BLEManager::is_connected
ble_is_connected(b) == b.connected /\ b.conn_handle # BLE_HS_CONN_HANDLE_NONE

\* A plausible slip: the scanning_ guard of line 293 is missing
start_scan_while_scanning(b, scan_duration_seconds, disc_ok) ==
    IF ~b.initialized THEN [ble |-> b, ret |-> FALSE]
    ELSE
      LET cleared == [b EXCEPT !.scan_results = <<>>] IN
      IF ~disc_ok \/ b.radio_disc THEN [ble |-> cleared, ret |-> FALSE]
      ELSE [ble |-> [cleared EXCEPT !.scanning = TRUE, !.radio_disc = TRUE],
            ret |-> TRUE]

\* A plausible slip: the results of the scan before are not cleared
start_scan_keeps_results(b, scan_duration_seconds, disc_ok) ==
    IF ~b.initialized THEN [ble |-> b, ret |-> FALSE]
    ELSE IF b.scanning THEN [ble |-> b, ret |-> FALSE]
    ELSE IF ~disc_ok \/ b.radio_disc THEN [ble |-> b, ret |-> FALSE]
    ELSE [ble |-> [b EXCEPT !.scanning = TRUE, !.radio_disc = TRUE], ret |-> TRUE]

\* BLEManager::start_scan(scan_duration_seconds); disc_ok is whether
\* ble_gap_disc is free of a stack failure (it also refuses while a discovery
\* procedure is running)
start_scan(b, scan_duration_seconds, disc_ok) ==
    IF ~b.initialized THEN [ble |-> b, ret |-> FALSE]
    ELSE IF b.scanning THEN [ble |-> b, ret |-> FALSE]
    ELSE
      LET cleared == [b EXCEPT !.scan_results = <<>>] IN
      IF ~disc_ok \/ b.radio_disc THEN [ble |-> cleared, ret |-> FALSE]
      ELSE [ble |-> [cleared EXCEPT !.scanning = TRUE, !.radio_disc = TRUE],
            ret |-> TRUE]

\* BLEManager::stop_scan
stop_scan(b, fail) ==
    IF ~b.scanning THEN [ble |-> b, ret |-> FALSE]
    ELSE IF fail THEN [ble |-> b, ret |-> FALSE]
    ELSE [ble |-> [b EXCEPT !.scanning = FALSE, !.radio_disc = FALSE],
          ret |-> TRUE]

get_scan_result_count(b) == Len(b.scan_results)

\* BLEManager::get_scan_result(index)
get_scan_result(b, index) ==
    IF index < 0 \/ index >= Len(b.scan_results) THEN ""
    ELSE
      LET result == b.scan_results[index + 1] IN
      "[" \o to_string(index) \o "] " \o result.address
      \o (IF result.name # "" THEN " (" \o result.name \o ")" ELSE " (Unknown)")
      \o " RSSI: " \o to_string(result.rssi) \o " dBm"
      \o (IF result.service_uuids # ""
          THEN " Services: " \o result.service_uuids ELSE "")

\* BLEManager::get_debug_status
get_debug_status(b) ==
    "=== BLE Debug Status ===\n"
    \o "Implementation: ESP-Hosted NimBLE via ESP32-C6\n"
    \o "Transport: VHCI over SDIO\n"
    \o "Initialized: " \o (IF b.initialized THEN "Yes" ELSE "No") \o "\n"
    \o "Advertising: " \o (IF b.advertising THEN "Active" ELSE "Stopped") \o "\n"
    \o "Connected: " \o (IF b.connected THEN "Yes" ELSE "No") \o "\n"
    \o "Scanning: " \o (IF b.scanning THEN "Active" ELSE "Stopped") \o "\n"
    \o "Connection Handle: " \o to_string(b.conn_handle) \o "\n"
    \o "Device Name: " \o b.device_name \o "\n"
    \o "Scan Results: " \o to_string(Len(b.scan_results)) \o " devices\n"
    \o "\nNordic UART Service:\n"
    \o "- Service UUID: 6E400001-B5A3-F393-E0A9-E50E24DCCA9E\n"
    \o "- RX Char UUID: 6E400002-B5A3-F393-E0A9-E50E24DCCA9E (Write)\n"
    \o "- TX Char UUID: 6E400003-B5A3-F393-E0A9-E50E24DCCA9E (Notify)\n"
    \o "- TX Handle: " \o to_string(b.nus_tx_char_handle) \o "\n"
    \o "\nESP-Hosted Configuration:\n"
    \o "- NimBLE Stack: Active\n"
    \o "- ESP32-C6 Controller: Connected via SDIO\n"
    \o "- VHCI Transport: Enabled\n"
    \o "- Service Registration: Complete\n"

\* A plausible slip: the handle of the new connection is not stored
BleOnConnectFlagOnly(b, conn_handle) ==
    [b EXCEPT !.connected = TRUE]

\* gap_event_handler, BLE_GAP_EVENT_CONNECT with status 0
BleOnConnect(b, conn_handle) ==
    [b EXCEPT !.conn_handle = conn_handle, !.connected = TRUE]

\* gap_event_handler, BLE_GAP_EVENT_CONNECT with a non-zero status
BleOnConnectFailed(b, fields_ok, start_ok) ==
    start_advertising_internal(b, fields_ok, start_ok)

\* A plausible slip: the link is forgotten and advertising is not restarted
BleOnDisconnectNoRestart(b, fields_ok, start_ok) ==
    [b EXCEPT !.conn_handle = BLE_HS_CONN_HANDLE_NONE, !.connected = FALSE]

\* gap_event_handler, BLE_GAP_EVENT_DISCONNECT
BleOnDisconnect(b, fields_ok, start_ok) ==
    start_advertising_internal(
        [b EXCEPT !.conn_handle = BLE_HS_CONN_HANDLE_NONE, !.connected = FALSE],
        fields_ok, start_ok)

\* gap_event_handler, BLE_GAP_EVENT_ADV_COMPLETE
BleOnAdvComplete(b) == [b EXCEPT !.advertising = FALSE]

\* gap_event_handler, BLE_GAP_EVENT_DISC for one advertiser
BleOnDisc(b, dev) ==
    [b EXCEPT !.scan_results =
        Append(b.scan_results,
               [address |-> FormatAddr(dev.addr), name |-> dev.name,
                rssi |-> dev.rssi, service_uuids |-> ""])]

\* gap_event_handler, BLE_GAP_EVENT_DISC_COMPLETE
BleOnDiscComplete(b) == [b EXCEPT !.scanning = FALSE]

----------------------------------------------------------------------------
(* CommandInterpreter (main/src/command_interpreter.cpp): argument parsing *)

\* the loop `for (char c : str) if (!std::isdigit(c)) valid_number = false`
AllDigits(str) == \A i \in 1..Len(str) : IsDigit(Char(str, i))

\* A 32-bit int as the pair <<high half, low half>> of its two's-complement
\* bits, each half in 0..65535
Int32Value(h) ==
    IF h[1] >= 32768 THEN (h[1] - 65536) * 65536 + h[2] ELSE h[1] * 65536 + h[2]

RECURSIVE AccumulateDigits(_, _, _)
\* the loop `for (char c : str) value = value * 10 + (c - '0')` on an int; i
\* is the next position of str, h the value. Overflow of a signed int is
\* undefined in C++; the arithmetic is taken modulo 2^32, which is what the
\* two's-complement multiply and add of the target compute.
AccumulateDigits(str, i, h) ==
    IF i > Len(str) THEN h
    ELSE
      LET low  == h[2] * 10 + DigitValue(Char(str, i))
          high == h[1] * 10 + (low \div 65536)
      IN  AccumulateDigits(str, i + 1, <<high % 65536, low % 65536>>)

\* the int the digit loop leaves, starting from 0
ParseDigits(str) == Int32Value(AccumulateDigits(str, 1, <<0, 0>>))

\* handle_ble_scan, lines 431-456: the duration the console handler computes
\* from the token list, and the notice it prints on the way
ConsoleScanDuration(args) ==
    IF Len(args) >= 2
    THEN LET duration_str == args[2] IN
         IF AllDigits(duration_str) /\ duration_str # ""
         THEN LET duration == ParseDigits(duration_str) IN
              IF duration < 1 \/ duration > 60
              THEN [duration |-> 5,
                    notice |-> "Invalid duration. Using default 5 seconds.\n"]
              ELSE [duration |-> duration, notice |-> ""]
         ELSE [duration |-> 5,
               notice |-> "Invalid duration format. Using default 5 seconds.\n"]
    ELSE [duration |-> 5, notice |-> ""]

\* A plausible slip in the range test: 60 is taken as out of range
ResponseScanDurationBelow60(args) ==
    IF Len(args) >= 2
    THEN LET duration_str == args[2] IN
         IF AllDigits(duration_str) /\ duration_str # ""
         THEN LET duration == ParseDigits(duration_str) IN
              IF duration < 1 \/ duration >= 60 THEN 5 ELSE duration
         ELSE 5
    ELSE 5

\* generate_ble_scan_response, lines 728-750: the duration the response
\* handler computes from the token list
ResponseScanDuration(args) ==
    IF Len(args) >= 2
    THEN LET duration_str == args[2] IN
         IF AllDigits(duration_str) /\ duration_str # ""
         THEN LET duration == ParseDigits(duration_str) IN
              IF duration < 1 \/ duration > 60 THEN 5 ELSE duration
         ELSE 5
    ELSE 5

\* A collaborator operation invoked by a handler: its name, its integer
\* argument (0 when it has none) and its string argument ("" when none)
Call(op, n, str) == [op |-> op, n |-> n, s |-> str]

\* What happens outside the interpreter during one dispatch
\*   scan, conn     what the radio does during the WiFi scan / connect waits
\*   wifi_disc_ok   esp_wifi_disconnect returns ESP_OK
\*   fields_ok, adv_ok   ble_gap_adv_set_fields / ble_gap_adv_start succeed
\*   stop_fail      ble_gap_adv_stop fails
\*   disc_ok        ble_gap_disc succeeds
\*   discovered     the advertisers whose discovery events the NimBLE host
\*                  task handles while a console handler runs on the main task
QuietEnv ==
    [ scan         |-> [start_ok |-> TRUE, done |-> FALSE, records |-> <<>>, sorted |-> <<>>],
      conn         |-> [discs |-> 0, end |-> "timeout"],
      wifi_disc_ok |-> TRUE,
      fields_ok    |-> TRUE,
      adv_ok       |-> TRUE,
      stop_fail    |-> FALSE,
      disc_ok      |-> TRUE,
      discovered   |-> <<>> ]

\* const char* CommandInterpreter::auth_mode_to_string
auth_mode_to_string(auth_mode) ==
    CASE auth_mode = "OPEN"         -> "Open"
      [] auth_mode = "WEP"          -> "WEP"
      [] auth_mode = "WPA_PSK"      -> "WPA"
      [] auth_mode = "WPA2_PSK"     -> "WPA2"
      [] auth_mode = "WPA_WPA2_PSK" -> "WPA/WPA2"
      [] auth_mode = "WPA3_PSK"     -> "WPA3"
      [] OTHER                      -> "Unknown"

RECURSIVE FormatNetworksFromOne(_, _)
\* A plausible slip: the entries are numbered from 1, as the console table is
FormatNetworksFromOne(networks, i) ==
    IF i >= Len(networks) THEN ""
    ELSE
      LET network == networks[i + 1] IN
      "  [" \o to_string(i + 1) \o "] " \o network.ssid
      \o " (" \o auth_mode_to_string(network.auth_mode)
      \o ", RSSI: " \o to_string(network.rssi) \o " dBm)\n"
      \o FormatNetworksFromOne(networks, i + 1)

RECURSIVE FormatNetworksFrom(_, _)
\* format_network_list: entry i (counted from 0) of the list
FormatNetworksFrom(networks, i) ==
    IF i >= Len(networks) THEN ""
    ELSE
      LET network == networks[i + 1] IN
      "  [" \o to_string(i) \o "] " \o network.ssid
      \o " (" \o auth_mode_to_string(network.auth_mode)
      \o ", RSSI: " \o to_string(network.rssi) \o " dBm)\n"
      \o FormatNetworksFrom(networks, i + 1)

format_network_list(networks) == FormatNetworksFrom(networks, 0)

RECURSIVE PrintNetworksFrom(_, _)
\* print_network_list: the row printf("%2zu. %-32s %4d  %s\n", i + 1, ...)
PrintNetworksFrom(networks, i) ==
    IF i >= Len(networks) THEN ""
    ELSE
      LET network == networks[i + 1] IN
      PadLeft(to_string(i + 1), 2) \o ". " \o PadRight(network.ssid, 32) \o " "
      \o PadLeft(to_string(network.rssi), 4) \o "  "
      \o auth_mode_to_string(network.auth_mode) \o "\n"
      \o PrintNetworksFrom(networks, i + 1)

print_network_list(networks) ==
    "\n=== Available WiFi Networks ===\n"
    \o "No. " \o PadRight("SSID", 32) \o " RSSI  Security\n"
    \o "--- " \o PadRight("--------------------------------", 32) \o " ----  --------\n"
    \o PrintNetworksFrom(networks, 0)
    \o "\n"

----------------------------------------------------------------------------
(* Console track: the handle_* functions. Each yields the collaborators'   *)
(* new states, the text written to the console and the collaborator        *)
(* operations invoked, in order.                                           *)

Result(w, b, out, calls) == [wifi |-> w, ble |-> b, out |-> out, calls |-> calls]

handle_help(w, b) ==
    Result(w, b,
        "\n=== Available Commands ===\n"
        \o "\n--- WiFi Commands ---\n"
        \o "help, h                    - Show this help message\n"
        \o "scan, s                    - Scan for available WiFi networks\n"
        \o "list, l                    - List previously scanned networks\n"
        \o "connect, c <ssid> <pass>   - Connect to a WiFi network\n"
        \o "status, st                 - Show current connection status\n"
        \o "disconnect, d              - Disconnect from current network\n"
        \o "\n--- BLE Commands ---\n"
        \o "ble_start, bs              - Start BLE advertising\n"
        \o "ble_stop, bp               - Stop BLE advertising\n"
        \o "ble_status, bt             - Show BLE status\n"
        \o "ble_name, bn <name>        - Set BLE device name\n"
        \o "ble_scan, bsc [duration]   - Scan for BLE devices (default: 5s)\n"
        \o "ble_debug, bd              - Show detailed BLE debug info\n"
        \o "\n"
        \o "Examples:\n"
        \o "  scan\n"
        \o "  connect \"MyNetwork\" \"MyPassword\"\n"
        \o "  ble_start\n"
        \o "  ble_scan 10\n"
        \o "  ble_debug\n"
        \o "\n",
        <<>>)

handle_scan(w, b, env) ==
    LET r == scan_networks(w, env.scan) IN
    IF r.ret
    THEN LET networks == get_scanned_networks(r.wifi) IN
         Result(r.wifi, b,
            "Scanning for WiFi networks...\n"
            \o (IF networks = <<>>
                THEN "No networks found.\n"
                ELSE "Scan completed. Found " \o to_string(Len(networks))
                     \o " networks.\n" \o print_network_list(networks)),
            <<Call("scan_networks", 0, ""), Call("get_scanned_networks", 0, "")>>)
    ELSE Result(r.wifi, b,
            "Scanning for WiFi networks...\n" \o "Failed to scan networks.\n",
            <<Call("scan_networks", 0, "")>>)

handle_list(w, b) ==
    LET networks == get_scanned_networks(w) IN
    Result(w, b,
        IF networks = <<>>
        THEN "No networks available. Run 'scan' first.\n"
        ELSE print_network_list(networks),
        <<Call("get_scanned_networks", 0, "")>>)

handle_connect(w, b, args, env) ==
    IF Len(args) < 3
    THEN Result(w, b,
            "Usage: connect <ssid> <password>\n"
            \o "Example: connect \"MyNetwork\" \"MyPassword\"\n",
            <<>>)
    ELSE
      LET ssid == args[2]
          password == args[3]
          r == connect_to_network(w, ssid, password, env.conn)
      IN
      IF r.ret
      THEN Result(r.wifi, b,
              "Connecting to network: " \o ssid \o "\n"
              \o "\n=== Connection Successful ===\n"
              \o "Connected to: " \o ssid \o "\n"
              \o "IP Address: " \o get_ip_address(r.wifi) \o "\n"
              \o "Signal Strength: " \o to_string(get_rssi(r.wifi)) \o " dBm\n"
              \o "\n",
              <<Call("connect_to_network", 0, ssid), Call("get_ip_address", 0, ""),
                Call("get_rssi", 0, "")>>)
      ELSE Result(r.wifi, b,
              "Connecting to network: " \o ssid \o "\n"
              \o "Failed to connect to: " \o ssid \o "\n"
              \o "Please check the network name and password.\n",
              <<Call("connect_to_network", 0, ssid)>>)

handle_status(w, b) ==
    IF is_connected(w)
    THEN Result(w, b,
            "\n=== Connection Status ===\n"
            \o "Status: Connected\n"
            \o "Network: " \o get_connected_ssid(w) \o "\n"
            \o "IP Address: " \o get_ip_address(w) \o "\n"
            \o "Signal Strength: " \o to_string(get_rssi(w)) \o " dBm\n"
            \o "\n",
            <<Call("is_connected", 0, ""), Call("get_connected_ssid", 0, ""),
              Call("get_ip_address", 0, ""), Call("get_rssi", 0, "")>>)
    ELSE Result(w, b,
            "\n=== Connection Status ===\n"
            \o "Status: Disconnected\n"
            \o "No active WiFi connection.\n"
            \o "\n",
            <<Call("is_connected", 0, "")>>)

handle_disconnect(w, b, env) ==
    IF ~is_connected(w)
    THEN Result(w, b, "Not connected to any network.\n",
                <<Call("is_connected", 0, "")>>)
    ELSE
      LET current_ssid == get_connected_ssid(w)
          r == disconnect(w, env.wifi_disc_ok)
      IN  Result(r.wifi, b,
              "Disconnecting from: " \o current_ssid \o "\n"
              \o (IF r.ret THEN "Disconnected successfully.\n"
                           ELSE "Failed to disconnect.\n"),
              <<Call("is_connected", 0, ""), Call("get_connected_ssid", 0, ""),
                Call("disconnect", 0, "")>>)

\* `attached` is whether ble_manager_ is non-null
handle_ble_start(w, b, attached, env) ==
    IF ~attached THEN Result(w, b, "BLE manager not available.\n", <<>>)
    ELSE
      LET r == start_advertising(b, "ESP32-P4-WiFi", env.fields_ok, env.adv_ok) IN
      Result(w, r.ble,
          "Starting BLE advertising...\n"
          \o (IF r.ret
              THEN "BLE advertising started successfully.\n"
                   \o "Device name: ESP32-P4-WiFi\n"
                   \o "You can now connect via BLE UART apps.\n"
              ELSE "Failed to start BLE advertising.\n"),
          <<Call("start_advertising", 0, "ESP32-P4-WiFi")>>)

handle_ble_stop(w, b, attached, env) ==
    IF ~attached THEN Result(w, b, "BLE manager not available.\n", <<>>)
    ELSE
      LET r == stop_advertising(b, env.stop_fail) IN
      Result(w, r.ble,
          "Stopping BLE advertising...\n"
          \o (IF r.ret THEN "BLE advertising stopped.\n"
                       ELSE "Failed to stop BLE advertising.\n"),
          <<Call("stop_advertising", 0, "")>>)

handle_ble_status(w, b, attached) ==
    IF ~attached THEN Result(w, b, "BLE manager not available.\n", <<>>)
    ELSE
      Result(w, b,
          "\n=== BLE Status ===\n"
          \o "Implementation: ESP-Hosted NimBLE via ESP32-C6\n"
          \o "Architecture: ESP32-P4 + ESP32-C6 coprocessor\n"
          \o "Initialized: Yes\n"
          \o "Advertising: " \o (IF ble_is_connected(b) THEN "Connected" ELSE "Available") \o "\n"
          \o "Connected: " \o (IF ble_is_connected(b) THEN "Yes" ELSE "No") \o "\n"
          \o "Device Name: ESP32-P4-WiFi\n"
          \o "Service: Nordic UART Service (NUS)\n"
          \o "\nConfiguration Status:\n"
          \o "- ESP32-C6 Coprocessor: Active\n"
          \o "- VHCI Transport: Active\n"
          \o "- NimBLE Stack: Running\n"
          \o "\nUse 'ble_debug' for detailed status info.\n"
          \o "\n",
          <<Call("is_connected", 0, ""), Call("is_connected", 0, "")>>)

handle_ble_name(w, b, attached, args) ==
    IF ~attached THEN Result(w, b, "BLE manager not available.\n", <<>>)
    ELSE IF Len(args) < 2
    THEN Result(w, b,
            "Usage: ble_name <device_name>\n"
            \o "Example: ble_name \"MyESP32-P4\"\n",
            <<>>)
    ELSE
      LET new_name == args[2] IN
      Result(w, b,
          "Setting BLE device name to: " \o new_name \o "\n"
          \o "Note: Name change will take effect on next advertising start.\n"
          \o "BLE name setting completed.\n",
          <<>>)

RECURSIVE BleOnDiscAll(_, _)
\* the discovery events of `devs`, handled in order
BleOnDiscAll(b, devs) ==
    IF devs = <<>> THEN b ELSE BleOnDiscAll(BleOnDisc(b, Head(devs)), Tail(devs))

RECURSIVE PrintScanResultsFrom(_, _)
\* the loop of lines 463-466: one printed line per scan result
PrintScanResultsFrom(b, i) ==
    IF i >= get_scan_result_count(b) THEN ""
    ELSE "  " \o get_scan_result(b, i) \o "\n" \o PrintScanResultsFrom(b, i + 1)

RECURSIVE ScanLoopCalls(_, _)
\* the collaborator operations of that loop: the count read by each test of
\* the loop condition, and one get_scan_result per iteration
ScanLoopCalls(b, i) ==
    IF i >= get_scan_result_count(b)
    THEN <<Call("get_scan_result_count", 0, "")>>
    ELSE <<Call("get_scan_result_count", 0, ""), Call("get_scan_result", i, "")>>
         \o ScanLoopCalls(b, i + 1)

handle_ble_scan(w, b, attached, args, env) ==
    IF ~attached THEN Result(w, b, "BLE manager not available.\n", <<>>)
    ELSE
      LET parsed == ConsoleScanDuration(args)
          duration == parsed.duration
          r == start_scan(b, duration, env.disc_ok)
          intro == parsed.notice \o "Starting BLE device scan for "
                   \o to_string(duration) \o " seconds...\n"
      IN
      IF r.ret
      THEN LET seen == BleOnDiscAll(r.ble, env.discovered) IN
           Result(w, seen,
              intro
              \o "Scan completed. Found " \o to_string(get_scan_result_count(seen))
              \o " devices:\n"
              \o PrintScanResultsFrom(seen, 0)
              \o (IF get_scan_result_count(seen) = 0
                  THEN "No BLE devices found.\n" ELSE ""),
              <<Call("start_scan", duration, ""), Call("get_scan_result_count", 0, "")>>
              \o ScanLoopCalls(seen, 0)
              \o <<Call("get_scan_result_count", 0, "")>>)
      ELSE Result(w, r.ble, intro \o "Failed to start BLE scan.\n",
                  <<Call("start_scan", duration, "")>>)

\* A plausible slip: the null check at the top of the handler is missing
handle_ble_debug_unchecked(w, b, attached) ==
    Result(w, b, "\n" \o get_debug_status(b) \o "\n",
           <<Call("get_debug_status", 0, "")>>)

handle_ble_debug(w, b, attached) ==
    IF ~attached THEN Result(w, b, "BLE manager not available.\n", <<>>)
    ELSE Result(w, b, "\n" \o get_debug_status(b) \o "\n",
                <<Call("get_debug_status", 0, "")>>)

handle_unknown_command(w, b, command) ==
    Result(w, b,
        "Unknown command: " \o command \o "\n"
        \o "Type 'help' for available commands.\n",
        <<>>)

----------------------------------------------------------------------------
(* Response track: the generate_*_response functions. `out` is the string  *)
(* returned.                                                               *)

generate_help_response(w, b) ==
    Result(w, b,
        "\n=== Available Commands ===\n"
        \o "\n--- WiFi Commands ---\n"
        \o "help, h                    - Show this help message\n"
        \o "scan, s                    - Scan for available WiFi networks\n"
        \o "list, l                    - List previously scanned networks\n"
        \o "connect, c <index>         - Connect to network by index\n"
        \o "status, st                 - Show WiFi connection status\n"
        \o "disconnect, d              - Disconnect from current network\n"
        \o "\n--- BLE Commands ---\n"
        \o "ble_start, bs              - Start BLE advertising\n"
        \o "ble_stop, bp               - Stop BLE advertising\n"
        \o "ble_status, bt             - Show BLE status\n"
        \o "ble_name, bn <name>        - Set BLE device name\n"
        \o "ble_scan, bsc [duration]   - Scan for BLE devices\n"
        \o "ble_debug, bd              - Show BLE debug info\n\n"
        \o "Commands available via USB Serial JTAG and BLE\n",
        <<>>)

generate_scan_response(w, b, env) ==
    LET r == scan_networks(w, env.scan) IN
    IF ~r.ret
    THEN Result(r.wifi, b, "Failed to scan for WiFi networks. Please try again.",
                <<Call("scan_networks", 0, "")>>)
    ELSE
      LET networks == get_scanned_networks(r.wifi) IN
      Result(r.wifi, b,
          IF networks = <<>>
          THEN "No WiFi networks found."
          ELSE "WiFi scan completed. Found " \o to_string(Len(networks))
               \o " networks:\n\n"
               \o format_network_list(networks)
               \o "\nUse 'connect <index>' to connect to a network.",
          <<Call("scan_networks", 0, ""), Call("get_scanned_networks", 0, "")>>)

generate_list_response(w, b) ==
    LET networks == get_scanned_networks(w) IN
    Result(w, b,
        IF networks = <<>>
        THEN "No networks available. Use 'scan' to search for WiFi networks."
        ELSE "Previously scanned networks:\n\n"
             \o format_network_list(networks)
             \o "\nUse 'connect <index>' to connect to a network.",
        <<Call("get_scanned_networks", 0, "")>>)

\* A plausible slip: text that is no number falls back to index 0
ConnectIndexFallback(args) ==
    LET index_str == args[2] IN
    IF AllDigits(index_str) /\ index_str # ""
    THEN [valid |-> TRUE, index |-> ParseDigits(index_str)]
    ELSE [valid |-> TRUE, index |-> 0]

\* generate_connect_response, lines 574-594: the index parsed from the first
\* argument, and whether the argument was a number at all (index stays -1
\* otherwise)
ConnectIndex(args) ==
    LET index_str == args[2] IN
    IF AllDigits(index_str) /\ index_str # ""
    THEN [valid |-> TRUE, index |-> ParseDigits(index_str)]
    ELSE [valid |-> FALSE, index |-> -1]

\* A plausible slip: the authentication mode is not looked at
NeedsPasswordNever(network) == FALSE

\* The test `network.auth_mode != WIFI_AUTH_OPEN` of generate_connect_response
NeedsPassword(network) == network.auth_mode # "OPEN"

generate_connect_response(w, b, args, env) ==
    IF Len(args) < 2
    THEN Result(w, b,
            "Usage: connect <index>\nExample: connect 0\nUse 'list' to see available networks.",
            <<>>)
    ELSE
      LET parsed == ConnectIndex(args) IN
      IF ~parsed.valid
      THEN Result(w, b, "Invalid network index. Please provide a valid number.", <<>>)
      ELSE
        LET index == parsed.index
            networks == get_scanned_networks(w)
        IN
        IF networks = <<>>
        THEN Result(w, b,
                "No networks available. Use 'scan' to search for WiFi networks first.",
                <<Call("get_scanned_networks", 0, "")>>)
        ELSE IF index < 0 \/ index >= Len(networks)
        THEN Result(w, b,
                "Network index out of range. Use 'list' to see available networks.",
                <<Call("get_scanned_networks", 0, "")>>)
        ELSE
          LET network == networks[index + 1]
              password == ""
          IN
          IF NeedsPassword(network)
          THEN Result(w, b,
                  "Password-protected networks not yet supported via BLE interface.\nPlease use USB Serial JTAG interface for password entry.",
                  <<Call("get_scanned_networks", 0, "")>>)
          ELSE
            LET r == connect_to_network(w, network.ssid, password, env.conn) IN
            IF r.ret
            THEN Result(r.wifi, b,
                    "Connecting to '" \o network.ssid \o "'...\n"
                    \o "Successfully connected to " \o network.ssid \o "\n"
                    \o "IP Address: " \o get_ip_address(r.wifi),
                    <<Call("get_scanned_networks", 0, ""),
                      Call("connect_to_network", 0, network.ssid),
                      Call("get_ip_address", 0, "")>>)
            ELSE Result(r.wifi, b,
                    "Connecting to '" \o network.ssid \o "'...\n"
                    \o "Failed to connect to " \o network.ssid
                    \o ". Please check network availability.",
                    <<Call("get_scanned_networks", 0, ""),
                      Call("connect_to_network", 0, network.ssid)>>)

generate_status_response(w, b) ==
    IF is_connected(w)
    THEN Result(w, b,
            "WiFi Status: Connected\n"
            \o "Network: " \o get_connected_ssid(w) \o "\n"
            \o "IP Address: " \o get_ip_address(w) \o "\n"
            \o "Signal Strength: " \o to_string(get_rssi(w)) \o " dBm",
            <<Call("is_connected", 0, ""), Call("get_connected_ssid", 0, ""),
              Call("get_ip_address", 0, ""), Call("get_rssi", 0, "")>>)
    ELSE Result(w, b,
            "WiFi Status: Disconnected\nUse 'scan' and 'connect' to join a network.",
            <<Call("is_connected", 0, "")>>)

generate_disconnect_response(w, b, env) ==
    IF ~is_connected(w)
    THEN Result(w, b, "WiFi is not connected.", <<Call("is_connected", 0, "")>>)
    ELSE
      LET ssid == get_connected_ssid(w)
          r == disconnect(w, env.wifi_disc_ok)
      IN  Result(r.wifi, b,
              IF r.ret THEN "Disconnected from " \o ssid
                       ELSE "Failed to disconnect from " \o ssid,
              <<Call("is_connected", 0, ""), Call("get_connected_ssid", 0, ""),
                Call("disconnect", 0, "")>>)

generate_ble_start_response(w, b, attached, env) ==
    IF ~attached THEN Result(w, b, "BLE manager not available.", <<>>)
    ELSE
      LET r == start_advertising(b, "ESP32-P4-WiFi", env.fields_ok, env.adv_ok) IN
      Result(w, r.ble,
          IF r.ret
          THEN "BLE advertising started successfully.\nDevice name: ESP32-P4-WiFi\nService: Nordic UART Service\nNote: Currently stub implementation."
          ELSE "Failed to start BLE advertising.",
          <<Call("start_advertising", 0, "ESP32-P4-WiFi")>>)

generate_ble_stop_response(w, b, attached, env) ==
    IF ~attached THEN Result(w, b, "BLE manager not available.", <<>>)
    ELSE
      LET r == stop_advertising(b, env.stop_fail) IN
      Result(w, r.ble,
          IF r.ret THEN "BLE advertising stopped."
                   ELSE "Failed to stop BLE advertising.",
          <<Call("stop_advertising", 0, "")>>)

generate_ble_status_response(w, b, attached) ==
    IF ~attached THEN Result(w, b, "BLE manager not available.", <<>>)
    ELSE
      Result(w, b,
          "=== BLE Status ===\n"
          \o "Implementation: ESP-Hosted NimBLE via ESP32-C6\n"
          \o "Architecture: ESP32-P4 + ESP32-C6 coprocessor\n"
          \o "Initialized: Yes\n"
          \o "Advertising: " \o (IF ble_is_connected(b) THEN "Connected" ELSE "Available") \o "\n"
          \o "Connected: " \o (IF ble_is_connected(b) THEN "Yes" ELSE "No") \o "\n"
          \o "Device Name: ESP32-P4-WiFi\n"
          \o "Service: Nordic UART Service (NUS)\n"
          \o "\nConfiguration Status:\n"
          \o "- ESP32-C6 Coprocessor: Active\n"
          \o "- VHCI Transport: Active\n"
          \o "- NimBLE Stack: Running\n"
          \o "\nUse 'ble_debug' for detailed info.",
          <<Call("is_connected", 0, ""), Call("is_connected", 0, "")>>)

generate_ble_name_response(w, b, attached, args) ==
    IF ~attached THEN Result(w, b, "BLE manager not available.", <<>>)
    ELSE IF Len(args) < 2
    THEN Result(w, b, "Usage: ble_name <device_name>\nExample: ble_name MyESP32-P4", <<>>)
    ELSE
      LET new_name == args[2] IN
      Result(w, b,
          "BLE device name set to: " \o new_name
          \o "\nNote: Name change will take effect on next advertising start.",
          <<>>)

RECURSIVE ScanResultLinesFrom(_, _, _)
\* the loop of lines 758-761 over the count read once
ScanResultLinesFrom(b, i, count) ==
    IF i >= count THEN ""
    ELSE "  " \o get_scan_result(b, i) \o "\n" \o ScanResultLinesFrom(b, i + 1, count)

RECURSIVE ScanResultCallsFrom(_, _)
ScanResultCallsFrom(i, count) ==
    IF i >= count THEN <<>>
    ELSE <<Call("get_scan_result", i, "")>> \o ScanResultCallsFrom(i + 1, count)

generate_ble_scan_response(w, b, attached, args, env) ==
    IF ~attached THEN Result(w, b, "BLE manager not available.", <<>>)
    ELSE
      LET duration == ResponseScanDuration(args)
          r == start_scan(b, duration, env.disc_ok)
          intro == "Starting BLE scan for " \o to_string(duration) \o " seconds...\n"
      IN
      IF r.ret
      THEN LET count == get_scan_result_count(r.ble) IN
           Result(w, r.ble,
              intro
              \o "Scan completed. Found " \o to_string(count) \o " devices:\n\n"
              \o ScanResultLinesFrom(r.ble, 0, count)
              \o (IF count = 0 THEN "No BLE devices found.\n" ELSE "")
              \o "\nReal BLE scanning via ESP32-C6 coprocessor.",
              <<Call("start_scan", duration, ""), Call("get_scan_result_count", 0, "")>>
              \o ScanResultCallsFrom(0, count))
      ELSE Result(w, r.ble, intro \o "Failed to start BLE scan.",
                  <<Call("start_scan", duration, "")>>)

generate_ble_debug_response(w, b, attached) ==
    IF ~attached THEN Result(w, b, "BLE manager not available.", <<>>)
    ELSE Result(w, b, get_debug_status(b), <<Call("get_debug_status", 0, "")>>)

----------------------------------------------------------------------------
(* The two dispatchers                                                     *)

\* The handler the if-chain of process_command (lines 163-189) selects for
\* the lower-cased first token
ConsoleHandlerFor(cmd) ==
    IF cmd = "help" \/ cmd = "h" THEN "handle_help"
    ELSE IF cmd = "scan" \/ cmd = "s" THEN "handle_scan"
    ELSE IF cmd = "list" \/ cmd = "l" THEN "handle_list"
    ELSE IF cmd = "connect" \/ cmd = "c" THEN "handle_connect"
    ELSE IF cmd = "status" \/ cmd = "st" THEN "handle_status"
    ELSE IF cmd = "disconnect" \/ cmd = "d" THEN "handle_disconnect"
    ELSE IF cmd = "ble_start" \/ cmd = "bs" THEN "handle_ble_start"
    ELSE IF cmd = "ble_stop" \/ cmd = "bp" THEN "handle_ble_stop"
    ELSE IF cmd = "ble_status" \/ cmd = "bt" THEN "handle_ble_status"
    ELSE IF cmd = "ble_name" \/ cmd = "bn" THEN "handle_ble_name"
    ELSE IF cmd = "ble_scan" \/ cmd = "bsc" THEN "handle_ble_scan"
    ELSE IF cmd = "ble_debug" \/ cmd = "bd" THEN "handle_ble_debug"
    ELSE "handle_unknown_command"

\* The handler the if-chain of process_command_with_response (lines 215-241)
\* selects; the last branch builds the unknown-command text in place
ResponseHandlerFor(cmd) ==
    IF cmd = "help" \/ cmd = "h" THEN "generate_help_response"
    ELSE IF cmd = "scan" \/ cmd = "s" THEN "generate_scan_response"
    ELSE IF cmd = "list" \/ cmd = "l" THEN "generate_list_response"
    ELSE IF cmd = "connect" \/ cmd = "c" THEN "generate_connect_response"
    ELSE IF cmd = "status" \/ cmd = "st" THEN "generate_status_response"
    ELSE IF cmd = "disconnect" \/ cmd = "d" THEN "generate_disconnect_response"
    ELSE IF cmd = "ble_start" \/ cmd = "bs" THEN "generate_ble_start_response"
    ELSE IF cmd = "ble_stop" \/ cmd = "bp" THEN "generate_ble_stop_response"
    ELSE IF cmd = "ble_status" \/ cmd = "bt" THEN "generate_ble_status_response"
    ELSE IF cmd = "ble_name" \/ cmd = "bn" THEN "generate_ble_name_response"
    ELSE IF cmd = "ble_scan" \/ cmd = "bsc" THEN "generate_ble_scan_response"
    ELSE IF cmd = "ble_debug" \/ cmd = "bd" THEN "generate_ble_debug_response"
    ELSE "unknown"

\* A dispatch: the handler selected ("none" when the dispatcher returns
\* before selecting one) and what it yields
Dispatched(handler, r) ==
    [handler |-> handler, wifi |-> r.wifi, ble |-> r.ble, out |-> r.out,
     calls |-> r.calls]

\* CommandInterpreter::process_command
process_command(w, b, attached, command, env) ==
    IF command = "" THEN Dispatched("none", Result(w, b, "", <<>>))
    ELSE
      LET tokens == parse_command(command) IN
      IF tokens = <<>> THEN Dispatched("none", Result(w, b, "", <<>>))
      ELSE
        LET cmd == ToLower(tokens[1])
            h == ConsoleHandlerFor(cmd)
        IN
        Dispatched(h,
          CASE h = "handle_help"        -> handle_help(w, b)
            [] h = "handle_scan"        -> handle_scan(w, b, env)
            [] h = "handle_list"        -> handle_list(w, b)
            [] h = "handle_connect"     -> handle_connect(w, b, tokens, env)
            [] h = "handle_status"      -> handle_status(w, b)
            [] h = "handle_disconnect"  -> handle_disconnect(w, b, env)
            [] h = "handle_ble_start"   -> handle_ble_start(w, b, attached, env)
            [] h = "handle_ble_stop"    -> handle_ble_stop(w, b, attached, env)
            [] h = "handle_ble_status"  -> handle_ble_status(w, b, attached)
            [] h = "handle_ble_name"    -> handle_ble_name(w, b, attached, tokens)
            [] h = "handle_ble_scan"    -> handle_ble_scan(w, b, attached, tokens, env)
            [] h = "handle_ble_debug"   -> handle_ble_debug(w, b, attached)
            [] OTHER                    -> handle_unknown_command(w, b, tokens[1]))

\* A plausible slip in the last branch: the token is not quoted
UnknownCommandTextUnquoted(token) ==
    "Unknown command: " \o token \o ". Type 'help' for available commands."

\* The text the last branch of process_command_with_response returns
UnknownCommandText(token) ==
    "Unknown command: '" \o token \o "'. Type 'help' for available commands."

\* CommandInterpreter::process_command_with_response
process_command_with_response(w, b, attached, command, env) ==
    IF command = ""
    THEN Dispatched("none",
            Result(w, b, "Enter a command. Type 'help' for available commands.", <<>>))
    ELSE
      LET clean_cmd == TrimCommand(command) IN
      IF clean_cmd = ""
      THEN Dispatched("none",
              Result(w, b, "Enter a command. Type 'help' for available commands.", <<>>))
      ELSE
        LET tokens == parse_command(clean_cmd) IN
        IF tokens = <<>>
        THEN Dispatched("none",
                Result(w, b, "Invalid command. Type 'help' for available commands.", <<>>))
        ELSE
          LET cmd == ToLower(tokens[1])
              h == ResponseHandlerFor(cmd)
          IN
          Dispatched(h,
            CASE h = "generate_help_response"       -> generate_help_response(w, b)
              [] h = "generate_scan_response"       -> generate_scan_response(w, b, env)
              [] h = "generate_list_response"       -> generate_list_response(w, b)
              [] h = "generate_connect_response"    ->
                     generate_connect_response(w, b, tokens, env)
              [] h = "generate_status_response"     -> generate_status_response(w, b)
              [] h = "generate_disconnect_response" ->
                     generate_disconnect_response(w, b, env)
              [] h = "generate_ble_start_response"  ->
                     generate_ble_start_response(w, b, attached, env)
              [] h = "generate_ble_stop_response"   ->
                     generate_ble_stop_response(w, b, attached, env)
              [] h = "generate_ble_status_response" ->
                     generate_ble_status_response(w, b, attached)
              [] h = "generate_ble_name_response"   ->
                     generate_ble_name_response(w, b, attached, tokens)
              [] h = "generate_ble_scan_response"   ->
                     generate_ble_scan_response(w, b, attached, tokens, env)
              [] h = "generate_ble_debug_response"  ->
                     generate_ble_debug_response(w, b, attached)
              [] OTHER -> Result(w, b, UnknownCommandText(tokens[1]), <<>>))

----------------------------------------------------------------------------
(* Relay manager                                                           *)

RELAY_1_GPIO == 32
RELAY_2_GPIO == 46
GPIO_NUM_NC == -1

RelayPins == {RELAY_1_GPIO, RELAY_2_GPIO}

\* No operation has been called yet
NoRelayOp == [name |-> "none", relay_id |-> "none", ret |-> FALSE]

\* RelayManager::RelayManager, with the levels the two output pins are at:
\* `level` is the hardware, `configs` and `writes` the gpio_config and
\* gpio_set_level calls of the most recent operation, `op` that operation and
\* what it returned
RelayManager(levels) ==
    [initialized_ |-> FALSE,
     relay_1_state_ |-> "OFF", relay_2_state_ |-> "OFF",
     relay_1_switch_count_ |-> 0, relay_2_switch_count_ |-> 0,
     total_operations_ |-> 0,
     level |-> levels, configs |-> <<>>, writes |-> <<>>, op |-> NoRelayOp,
     destroyed |-> FALSE]

\* The GPIO driver when every call succeeds
GpioOk == [config |-> [pin \in RelayPins |-> TRUE], write |-> [pin \in RelayPins |-> TRUE]]

\* RelayManager::configure_gpio_pin: gpio_config succeeds or fails as the
\* hardware decides (gpio.config) and sets no level
configure_gpio_pin(r, gpio_pin, gpio) ==
    [relay |-> [r EXCEPT !.configs = Append(@, [pin |-> gpio_pin, ok |-> gpio.config[gpio_pin]])],
     ret |-> gpio.config[gpio_pin]]

\* A plausible slip: the result of gpio_set_level is not looked at
set_gpio_state_unchecked(r, gpio_pin, state, gpio) ==
    LET ok == gpio.write[gpio_pin] IN
    [relay |-> [r EXCEPT !.writes = Append(@, [pin |-> gpio_pin, level |-> state, ok |-> ok]),
                         !.level[gpio_pin] = IF ok THEN state ELSE @],
     ret |-> TRUE]

\* RelayManager::set_gpio_state: gpio_set_level succeeds or fails as the
\* hardware decides (gpio.write); a failed write leaves the pin as it was
set_gpio_state(r, gpio_pin, state, gpio) ==
    LET ok == gpio.write[gpio_pin] IN
    [relay |-> [r EXCEPT !.writes = Append(@, [pin |-> gpio_pin, level |-> state, ok |-> ok]),
                         !.level[gpio_pin] = IF ok THEN state ELSE @],
     ret |-> ok]

\* A plausible slip: the results of the two initial writes are not checked
initialize_unchecked(r, gpio) ==
    IF r.initialized_ THEN [relay |-> r, ret |-> TRUE]
    ELSE
      LET c1 == configure_gpio_pin(r, RELAY_1_GPIO, gpio)
          c2 == configure_gpio_pin(c1.relay, RELAY_2_GPIO, gpio)
          w1 == set_gpio_state(c2.relay, RELAY_1_GPIO, 0, gpio)
          w2 == set_gpio_state(w1.relay, RELAY_2_GPIO, 0, gpio)
      IN  IF ~c1.ret THEN [relay |-> c1.relay, ret |-> FALSE]
          ELSE IF ~c2.ret THEN [relay |-> c2.relay, ret |-> FALSE]
          ELSE [relay |-> [w2.relay EXCEPT !.initialized_ = TRUE], ret |-> TRUE]

\* RelayManager::initialize
initialize(r, gpio) ==
    IF r.initialized_ THEN [relay |-> r, ret |-> TRUE]
    ELSE
    LET c1 == configure_gpio_pin(r, RELAY_1_GPIO, gpio) IN
    IF ~c1.ret THEN [relay |-> c1.relay, ret |-> FALSE]
    ELSE
    LET c2 == configure_gpio_pin(c1.relay, RELAY_2_GPIO, gpio) IN
    IF ~c2.ret THEN [relay |-> c2.relay, ret |-> FALSE]
    ELSE
      LET w1 == set_gpio_state(c2.relay, RELAY_1_GPIO, 0, gpio) IN
      IF ~w1.ret THEN [relay |-> w1.relay, ret |-> FALSE]
      ELSE
        LET w2 == set_gpio_state(w1.relay, RELAY_2_GPIO, 0, gpio) IN
        IF ~w2.ret THEN [relay |-> w2.relay, ret |-> FALSE]
        ELSE [relay |-> [w2.relay EXCEPT !.relay_1_state_ = "OFF",
                                         !.relay_2_state_ = "OFF",
                                         !.relay_1_switch_count_ = 0,
                                         !.relay_2_switch_count_ = 0,
                                         !.total_operations_ = 0,
                                         !.initialized_ = TRUE],
              ret |-> TRUE]

\* RelayManager::relay_id_to_gpio
relay_id_to_gpio(relay_id) ==
    CASE relay_id = "RELAY_1" -> RELAY_1_GPIO
      [] relay_id = "RELAY_2" -> RELAY_2_GPIO
      [] OTHER -> GPIO_NUM_NC

\* A plausible slip: every successful set counts as a switch
UpdateStateTrackingAlways(r, relay_id, state) ==
    IF relay_id = "RELAY_1"
    THEN [r EXCEPT !.relay_1_switch_count_ = @ + 1, !.relay_1_state_ = state]
    ELSE IF relay_id = "RELAY_2"
    THEN [r EXCEPT !.relay_2_switch_count_ = @ + 1, !.relay_2_state_ = state]
    ELSE r

\* set_relay_state, "Update state tracking"
UpdateStateTracking(r, relay_id, state) ==
    IF relay_id = "RELAY_1"
    THEN [r EXCEPT !.relay_1_switch_count_ = IF r.relay_1_state_ # state THEN @ + 1 ELSE @,
                   !.relay_1_state_ = state]
    ELSE IF relay_id = "RELAY_2"
    THEN [r EXCEPT !.relay_2_switch_count_ = IF r.relay_2_state_ # state THEN @ + 1 ELSE @,
                   !.relay_2_state_ = state]
    ELSE r

\* A plausible slip: the initialized_ guard of line 123 is missing
set_relay_state_unguarded(r, relay_id, state, gpio) ==
    LET one(m, id) ==
            LET counted == [m EXCEPT !.total_operations_ = @ + 1]
                w == set_gpio_state(counted, relay_id_to_gpio(id),
                                    IF state = "ON" THEN 1 ELSE 0, gpio)
            IN  IF ~w.ret THEN [relay |-> w.relay, ret |-> FALSE]
                ELSE [relay |-> UpdateStateTracking(w.relay, id, state), ret |-> TRUE]
    IN  IF relay_id = "ALL_RELAYS"
        THEN LET first  == one([r EXCEPT !.total_operations_ = @ + 1], "RELAY_1")
                 second == one(first.relay, "RELAY_2")
             IN  [relay |-> second.relay, ret |-> first.ret /\ second.ret]
        ELSE one(r, relay_id)

RECURSIVE set_relay_state(_, _, _, _)
\* RelayManager::set_relay_state
set_relay_state(r, relay_id, state, gpio) ==
    IF ~r.initialized_ THEN [relay |-> r, ret |-> FALSE]
    ELSE
      LET counted == [r EXCEPT !.total_operations_ = @ + 1] IN
      IF relay_id = "ALL_RELAYS"
      THEN LET first  == set_relay_state(counted, "RELAY_1", state, gpio)
               second == set_relay_state(first.relay, "RELAY_2", state, gpio)
           IN  [relay |-> second.relay, ret |-> first.ret /\ second.ret]
      ELSE
        LET gpio_pin == relay_id_to_gpio(relay_id) IN
        IF gpio_pin = GPIO_NUM_NC THEN [relay |-> counted, ret |-> FALSE]
        ELSE
          LET w == set_gpio_state(counted, gpio_pin, IF state = "ON" THEN 1 ELSE 0, gpio) IN
          IF ~w.ret THEN [relay |-> w.relay, ret |-> FALSE]
          ELSE [relay |-> UpdateStateTracking(w.relay, relay_id, state), ret |-> TRUE]

\* RelayManager::get_relay_state
get_relay_state(r, relay_id) ==
    IF ~r.initialized_ THEN "OFF"
    ELSE CASE relay_id = "RELAY_1" -> r.relay_1_state_
           [] relay_id = "RELAY_2" -> r.relay_2_state_
           [] OTHER -> "OFF"

\* A plausible slip: the All target reaches the first relay only
turn_on_first(r, relay_id, gpio) ==
    set_relay_state(r, IF relay_id = "ALL_RELAYS" THEN "RELAY_1" ELSE relay_id, "ON", gpio)

\* RelayManager::turn_on
turn_on(r, relay_id, gpio) == set_relay_state(r, relay_id, "ON", gpio)

\* RelayManager::turn_off
turn_off(r, relay_id, gpio) == set_relay_state(r, relay_id, "OFF", gpio)

\* A plausible slip: the All target gives both relays the opposite of the
\* first relay's state
toggle_all_from_first(r, relay_id, gpio) ==
    IF ~r.initialized_ THEN [relay |-> r, ret |-> FALSE]
    ELSE
      LET current_state == get_relay_state(r, IF relay_id = "ALL_RELAYS"
                                              THEN "RELAY_1" ELSE relay_id)
          new_state == IF current_state = "ON" THEN "OFF" ELSE "ON"
      IN  IF relay_id = "ALL_RELAYS"
          THEN LET first  == set_relay_state(r, "RELAY_1", new_state, gpio)
                   second == set_relay_state(first.relay, "RELAY_2", new_state, gpio)
               IN  [relay |-> second.relay, ret |-> first.ret /\ second.ret]
          ELSE set_relay_state(r, relay_id, new_state, gpio)

\* A plausible slip: the All target stops at the first relay that fails
\* (&& where the code has &=)
toggle_short_circuit(r, relay_id, gpio) ==
    LET flip(m, id) ==
            set_relay_state(m, id, IF get_relay_state(m, id) = "ON" THEN "OFF" ELSE "ON", gpio)
    IN  IF ~r.initialized_ THEN [relay |-> r, ret |-> FALSE]
        ELSE IF relay_id = "ALL_RELAYS"
        THEN LET first == flip(r, "RELAY_1") IN
             IF ~first.ret THEN first ELSE flip(first.relay, "RELAY_2")
        ELSE flip(r, relay_id)

RECURSIVE toggle(_, _, _)
\* RelayManager::toggle
toggle(r, relay_id, gpio) ==
    IF ~r.initialized_ THEN [relay |-> r, ret |-> FALSE]
    ELSE IF relay_id = "ALL_RELAYS"
    THEN LET first  == toggle(r, "RELAY_1", gpio)
             second == toggle(first.relay, "RELAY_2", gpio)
         IN  [relay |-> second.relay, ret |-> first.ret /\ second.ret]
    ELSE
      LET current_state == get_relay_state(r, relay_id)
          new_state == IF current_state = "ON" THEN "OFF" ELSE "ON"
      IN  set_relay_state(r, relay_id, new_state, gpio)

\* RelayManager::turn_off_all
turn_off_all(r, gpio) == set_relay_state(r, "ALL_RELAYS", "OFF", gpio)

\* RelayManager::~RelayManager
RelayManagerDestructor(r, gpio) ==
    IF r.initialized_ THEN turn_off_all(r, gpio).relay ELSE r

----------------------------------------------------------------------------
(* State machine                                                           *)

NoDispatch ==
    [track |-> "none", command |-> "", handler |-> "none", out |-> "",
     calls |-> <<>>, changed |-> {}]

\* What a dispatch leaves in `last`; `changed` names the collaborators whose
\* state the dispatch changed. A dispatch in which abort() was called does not
\* return: the process has ended (track "aborted").
Record(track, command, d) ==
    [track |-> IF d.wifi.aborted THEN "aborted" ELSE track, command |-> command, handler |-> d.handler, out |-> d.out,
     calls |-> d.calls,
     changed |-> (IF d.wifi # wifi THEN {"wifi"} ELSE {})
                 \cup (IF d.ble # ble THEN {"ble"} ELSE {})]

\* The CommandInterpreter as app_main constructs it: the WiFi manager only
\* (ble_manager_ and relay_manager_ null). `inside` holds, for each of the two
\* tasks that call it, the command the task is dispatching (none, or one).
InterpreterInitial ==
    [ble_manager |-> FALSE, relay_manager |-> FALSE,
     inside |-> [console |-> <<>>, nus |-> <<>>]]

\* app_main up to the construction of the CommandInterpreter: both managers
\* initialized (app_main returns otherwise), the interpreter holding the WiFi
\* manager only (ble_manager_ and relay_manager_ null); the relay manager
\* is the one app_main has initialized
Init ==
    /\ wifi = WifiInitial
    /\ ble = BleInitial(TxCharHandle)
    /\ interp = InterpreterInitial
    /\ last = NoDispatch
    /\ relay = initialize(RelayManager([pin \in RelayPins |-> 0]), GpioOk).relay

\* CommandInterpreter::set_ble_manager
set_ble_manager ==
    /\ last.track = "none"
    /\ interp' = [interp EXCEPT !.ble_manager = TRUE]
    /\ UNCHANGED <<wifi, ble, last, relay>>

\* One call of process_command with any text (start_interactive_mode calls it
\* with every non-empty line it reads). `last` keeps what the call did until
\* the loop goes on to its next line.
ProcessCommand(command, env) ==
    LET d == process_command(wifi, ble, interp.ble_manager, command, env) IN
    /\ last.track = "none"
    /\ wifi' = d.wifi
    /\ ble' = d.ble
    /\ last' = Record("console", command, d)
    /\ UNCHANGED <<interp, relay>>

\* One call of process_command_with_response with any text (the command
\* callback calls it with the bytes written to the RX characteristic)
ProcessCommandWithResponse(command, env) ==
    LET d == process_command_with_response(wifi, ble, interp.ble_manager, command, env) IN
    /\ last.track = "none"
    /\ wifi' = d.wifi
    /\ ble' = d.ble
    /\ last' = Record("response", command, d)
    /\ UNCHANGED <<interp, relay>>

\* start_interactive_mode after process_command returns: the prompt is
\* printed and the loop reads the next line
print_prompt ==
    /\ last.track = "console"
    /\ last' = NoDispatch
    /\ UNCHANGED <<wifi, ble, interp, relay>>

\* The command callback returns the response to its caller
ReturnResponse ==
    /\ last.track = "response"
    /\ last' = NoDispatch
    /\ UNCHANGED <<wifi, ble, interp, relay>>

\* The lower-cased first token of an input ("" when it has none)
FirstWord(command) ==
    LET tokens == parse_command(command) IN
    IF tokens = <<>> THEN "" ELSE ToLower(tokens[1])

\* The surroundings a dispatch of `command` can meet, given what the radio
\* can do during a WiFi scan (scans), during a connect (conns) and which
\* discovery events can be handled during a console ble_scan (seen)
EnvsFor(command, scans, conns, seen) ==
    LET word == FirstWord(command) IN
    CASE word \in {"scan", "s"} -> { [QuietEnv EXCEPT !.scan = x] : x \in scans }
      [] word \in {"connect", "c"} -> { [QuietEnv EXCEPT !.conn = x] : x \in conns }
      [] word \in {"disconnect", "d"} ->
             { [QuietEnv EXCEPT !.wifi_disc_ok = x] : x \in BOOLEAN }
      [] word \in {"ble_start", "bs"} ->
             { [QuietEnv EXCEPT !.fields_ok = x, !.adv_ok = y] : x, y \in BOOLEAN }
      [] word \in {"ble_stop", "bp"} ->
             { [QuietEnv EXCEPT !.stop_fail = x] : x \in BOOLEAN }
      [] word \in {"ble_scan", "bsc"} ->
             { [QuietEnv EXCEPT !.disc_ok = FALSE] }
             \cup { [QuietEnv EXCEPT !.discovered = y] : y \in seen }
      [] OTHER -> {QuietEnv}

----------------------------------------------------------------------------
(* Inputs                                                                  *)

\* toupper on one character
ToUpperChar(c) ==
    IF \E i \in 1..Len(LowerCase) : Char(LowerCase, i) = c
    THEN Char(UpperCase, CHOOSE i \in 1..Len(LowerCase) : Char(LowerCase, i) = c)
    ELSE c

RECURSIVE ToUpper(_)
ToUpper(s) == IF s = "" THEN "" ELSE ToUpperChar(Head(s)) \o ToUpper(Tail(s))

\* A word with a capital first letter
Capitalized(word) == ToUpperChar(Head(word)) \o Tail(word)

\* The command table of the interface: keyword and short alias ("" for none)
CommandTable ==
    { [keyword |-> "help",         alias |-> "h"],
      [keyword |-> "scan",         alias |-> "s"],
      [keyword |-> "list",         alias |-> "l"],
      [keyword |-> "connect",      alias |-> "c"],
      [keyword |-> "status",       alias |-> "st"],
      [keyword |-> "disconnect",   alias |-> "d"],
      [keyword |-> "ble_start",    alias |-> "bs"],
      [keyword |-> "ble_stop",     alias |-> "bp"],
      [keyword |-> "ble_status",   alias |-> "bt"],
      [keyword |-> "ble_name",     alias |-> "bn"],
      [keyword |-> "ble_scan",     alias |-> "bsc"],
      [keyword |-> "ble_debug",    alias |-> "bd"],
      [keyword |-> "relay_on",     alias |-> ""],
      [keyword |-> "relay_off",    alias |-> ""],
      [keyword |-> "relay_toggle", alias |-> ""],
      [keyword |-> "relay_status", alias |-> ""],
      [keyword |-> "relay_debug",  alias |-> ""] }

\* Every keyword and alias of the table
TableWords ==
    {row.keyword : row \in CommandTable} \cup ({row.alias : row \in CommandTable} \ {""})

WhitespaceInputs == {"", " ", "\t", " \t\r\n", "\f "}

UnknownInputs == {"foo", "Foo", "HELPX", "he lp", "ble-scan 10", " Xyz  help "}

\* Inputs with quote characters
QuotedInputs == {"connect \"My Net\" pw", "say 'a b'\tc", "\"\""}

\* Inputs of the dispatcher specification: every keyword and alias in lower
\* and in upper case, some with a capital first letter, surrounding
\* whitespace or arguments, inputs of whitespace only, and first words the
\* table does not hold
DispatchInputs ==
    TableWords
    \cup {ToUpper(word) : word \in TableWords}
    \cup {Capitalized(row.keyword) : row \in CommandTable}
    \cup {"  help", "\tScan\r\n", "relay_on 1", "RELAY_ON 1", "ble_scan 10", "BSC 10"}
    \cup WhitespaceInputs
    \cup UnknownInputs
    \cup QuotedInputs

\* The radio's behaviours met in the dispatcher specification
DispatchScans ==
    { [start_ok |-> FALSE, done |-> FALSE, records |-> <<>>, sorted |-> <<>>],
      [start_ok |-> TRUE, done |-> TRUE,
       records |-> << [ssid |-> "CafeWiFi", rssi |-> -70, authmode |-> "OPEN"],
                      [ssid |-> "HomeNet",  rssi |-> -40, authmode |-> "WPA2_PSK"] >>,
       sorted  |-> << NetworkInfo("HomeNet", -40, "WPA2_PSK"),
                      NetworkInfo("CafeWiFi", -70, "OPEN") >>] }

DispatchConnects == { [discs |-> 0, end |-> "timeout"] }

ConsoleDispatch ==
    \E command \in DispatchInputs :
      \E env \in EnvsFor(command, DispatchScans, DispatchConnects, {<<>>}) :
        ProcessCommand(command, env)

ResponseDispatch ==
    \E command \in DispatchInputs :
      \E env \in EnvsFor(command, DispatchScans, DispatchConnects, {<<>>}) :
        ProcessCommandWithResponse(command, env)

NextDispatch ==
    \/ ConsoleDispatch
    \/ ResponseDispatch
    \/ print_prompt
    \/ ReturnResponse
    \/ set_ble_manager

\* The dispatchers under every input of DispatchInputs
Spec == Init /\ [][NextDispatch]_vars

----------------------------------------------------------------------------
(* BLE commands, and the GAP events the NimBLE host task delivers. A       *)
(* dispatch is one step, so an event falls before it or after it; an event *)
(* and the return of a result touch different variables and commute, and   *)
(* the events are taken after the return.                                  *)

\* What gap_event_handler leaves in `last` until it returns: the type of the
\* event it has handled
GapHandled(type) == [NoDispatch EXCEPT !.track = "event", !.handler = type]

\* BLE_GAP_EVENT_CONNECT, status 0: a central connects to the advertiser,
\* which ends the advertising on the controller
GapConnect(conn_handle) ==
    /\ last.track = "none"
    /\ ble.radio_adv /\ ~ble.radio_link
    /\ ble' = BleOnConnect([ble EXCEPT !.radio_adv = FALSE, !.radio_link = TRUE],
                           conn_handle)
    /\ last' = GapHandled("BLE_GAP_EVENT_CONNECT")
    /\ UNCHANGED <<wifi, interp, relay>>

\* BLE_GAP_EVENT_CONNECT, non-zero status: the connection attempt failed
GapConnectFailed(fields_ok, start_ok) ==
    /\ last.track = "none"
    /\ ble.radio_adv /\ ~ble.radio_link
    /\ ble' = BleOnConnectFailed([ble EXCEPT !.radio_adv = FALSE], fields_ok, start_ok)
    /\ last' = GapHandled("BLE_GAP_EVENT_CONNECT")
    /\ UNCHANGED <<wifi, interp, relay>>

\* BLE_GAP_EVENT_DISCONNECT
GapDisconnect(fields_ok, start_ok) ==
    /\ last.track = "none"
    /\ ble.radio_link
    /\ ble' = BleOnDisconnect([ble EXCEPT !.radio_link = FALSE], fields_ok, start_ok)
    /\ last' = GapHandled("BLE_GAP_EVENT_DISCONNECT")
    /\ UNCHANGED <<wifi, interp, relay>>

\* BLE_GAP_EVENT_DISC: the running discovery procedure reports an advertiser
\* it has not reported yet (filter_duplicates = 1)
GapDisc(dev) ==
    /\ last.track = "none"
    /\ ble.radio_disc
    /\ Len(ble.scan_results) < MaxDiscoveries
    /\ \A i \in 1..Len(ble.scan_results) :
          ble.scan_results[i].address # FormatAddr(dev.addr)
    /\ ble' = BleOnDisc(ble, dev)
    /\ last' = GapHandled("BLE_GAP_EVENT_DISC")
    /\ UNCHANGED <<wifi, interp, relay>>

\* BLE_GAP_EVENT_DISC_COMPLETE: the discovery procedure ran for its duration
GapDiscComplete ==
    /\ last.track = "none"
    /\ ble.radio_disc
    /\ ble' = BleOnDiscComplete([ble EXCEPT !.radio_disc = FALSE])
    /\ last' = GapHandled("BLE_GAP_EVENT_DISC_COMPLETE")
    /\ UNCHANGED <<wifi, interp, relay>>

\* gap_event_handler returns to the NimBLE host task
GapReturn ==
    /\ last.track = "event"
    /\ last' = NoDispatch
    /\ UNCHANGED <<wifi, ble, interp, relay>>

\* Most numeral a ble_scan input gives as its duration
MaxNumeral == 62

DurationNumerals == {to_string(n) : n \in 0..MaxNumeral}

\* Numerals with leading zeros, and numerals at and beyond the limits of a
\* 32-bit int
LongNumerals ==
    {"007", "060", "0061", "100", "600", "2147483647", "2147483648",
     "4294967295", "4294967296", "4294967297", "4294967306", "4294967356",
     "4294967357", "42949672965", "99999999999999999999"}

NonNumerals == {"abc", "1a", "a1", "-5", "+5", "5.0", "1e1", "0x10", "5s", "1_0"}

BleWords ==
    {"ble_start", "bs", "ble_stop", "bp", "ble_status", "bt",
     "ble_name", "bn", "ble_scan", "bsc", "ble_debug", "bd"}

\* Inputs of the BLE specification: every BLE keyword and alias, bare and with
\* arguments, and ble_scan with every duration argument above
BleInputs ==
    BleWords
    \cup {word \o " 10" : word \in BleWords}
    \cup {"BLE_STATUS", "Bd x y", "BN  10 ",
          "bsc 61", "BSC abc", "bsc 0", " ble_scan\t30 40\n", "Ble_Scan 4294967306"}
    \cup {"ble_scan " \o arg : arg \in DurationNumerals \cup LongNumerals \cup NonNumerals}

\* The advertisers whose discovery events can be handled while a console
\* ble_scan runs: none, or one
BleSeen == {<<>>} \cup {<<dev>> : dev \in BleDevices}

ConsoleBle ==
    \E command \in BleInputs :
      \E env \in EnvsFor(command, {}, {}, BleSeen) :
        ProcessCommand(command, env)

ResponseBle ==
    \E command \in BleInputs :
      \E env \in EnvsFor(command, {}, {}, {<<>>}) :
        ProcessCommandWithResponse(command, env)

GapEvent ==
    \/ \E conn_handle \in ConnHandles : GapConnect(conn_handle)
    \/ \E fields_ok, start_ok \in BOOLEAN : GapConnectFailed(fields_ok, start_ok)
    \/ \E fields_ok, start_ok \in BOOLEAN : GapDisconnect(fields_ok, start_ok)
    \/ \E dev \in BleDevices : GapDisc(dev)
    \/ GapDiscComplete

NextBle ==
    \/ ConsoleBle
    \/ ResponseBle
    \/ print_prompt
    \/ ReturnResponse
    \/ set_ble_manager
    \/ GapEvent
    \/ GapReturn

\* The BLE commands on both tracks, with the GAP events in between
SpecBle == Init /\ [][NextBle]_vars

----------------------------------------------------------------------------
(* WiFi commands, and the events the system event task delivers. As with   *)
(* the GAP events, they are taken after the return of a result.            *)

\* WIFI_EVENT_STA_DISCONNECTED: the station lost, or failed to get, or left
\* its association
StaDisconnected ==
    /\ last.track = "none"
    /\ wifi.sta \in {"up", "connecting", "leaving"}
    /\ wifi' = WifiOnStaDisconnected(wifi)
    /\ UNCHANGED <<ble, interp, last, relay>>

\* IP_EVENT_STA_GOT_IP: the station associated and DHCP gave it an address
GotIp ==
    /\ last.track = "none"
    /\ wifi.sta = "connecting"
    /\ wifi' = WifiOnGotIp(wifi)
    /\ UNCHANGED <<ble, interp, last, relay>>

\* WIFI_EVENT_SCAN_DONE for a scan whose scan_networks call gave up waiting
ScanDone(records, sorted) ==
    /\ last.track = "none"
    /\ wifi.scan_active
    /\ wifi' = WifiOnScanDone(wifi, records, sorted)
    /\ UNCHANGED <<ble, interp, last, relay>>

\* Inputs of the WiFi specification: the WiFi keywords and aliases, and
\* connect with indexes in and out of the list, with an index that does not
\* fit a 32-bit int, with no index and with text
WifiInputs ==
    {"scan", "S", "list", "l", "status", "st", "disconnect", "D",
     "connect", "connect 0", "c 1", "CONNECT 2", "connect 99", "connect 01",
     "connect abc", "connect -1", "connect 4294967296", "connect 0 secret",
     "connect Guest", "connect CafeWiFi pw", "c HomeNet secret"}

\* What the radio does during the connect wait in this specification: none,
\* some, or all of the retries, each ending as ConnectWaits says
WifiConnects == {wait \in ConnectWaits : wait.discs \in {0, 2, MAX_RETRY_COUNT + 1}}

ConsoleWifi ==
    \E command \in WifiInputs :
      \E env \in EnvsFor(command, ScanWaits, WifiConnects, {<<>>}) :
        ProcessCommand(command, env)

ResponseWifi ==
    \E command \in WifiInputs :
      \E env \in EnvsFor(command, ScanWaits, WifiConnects, {<<>>}) :
        ProcessCommandWithResponse(command, env)

WifiEvent ==
    \/ StaDisconnected
    \/ GotIp
    \/ \E records \in ApRecordLists :
         \E sorted \in SortOutcomes(ScanCollected(records)) : ScanDone(records, sorted)

NextWifi ==
    \/ ConsoleWifi
    \/ ResponseWifi
    \/ print_prompt
    \/ ReturnResponse
    \/ WifiEvent

\* The WiFi commands on both tracks, with the WiFi events in between
SpecWifi == Init /\ [][NextWifi]_vars

----------------------------------------------------------------------------
(* Commands written by a BLE peer to the RX characteristic, handled on the *)
(* NimBLE host task: nus_access_cb, process_received_data, the command     *)
(* callback of app_main and send_response.                                 *)

\* BLEManager::send_response: the value returned and the notifications handed
\* to the stack (n is the return code); nimble.mbuf_ok and nimble.notify_ok
\* are whether ble_hs_mbuf_from_flat and ble_gatts_notify_custom succeed
send_response(b, data, nimble) ==
    IF ~ble_is_connected(b) THEN [ret |-> FALSE, calls |-> <<>>]
    ELSE IF Len(data) > MAX_DATA_LEN THEN [ret |-> FALSE, calls |-> <<>>]
    ELSE IF b.nus_tx_char_handle = 0 THEN [ret |-> FALSE, calls |-> <<>>]
    ELSE IF ~nimble.mbuf_ok THEN [ret |-> FALSE, calls |-> <<>>]
    ELSE IF ~nimble.notify_ok
    THEN [ret |-> FALSE, calls |-> <<Call("ble_gatts_notify_custom", 1, data)>>]
    ELSE [ret |-> TRUE, calls |-> <<Call("ble_gatts_notify_custom", 0, data)>>]

\* A plausible slip: the test for a registered callback is missing
process_received_data_unchecked(w, b, attached, data, env, nimble) ==
    LET d == process_command_with_response(w, b, attached, data, env) IN
    [called |-> TRUE, d |-> d,
     sent |-> IF d.out # "" THEN send_response(d.ble, d.out, nimble).calls ELSE <<>>]

\* BLEManager::process_received_data with the callback app_main registers
\* (it returns process_command_with_response(command)): whether the callback
\* was called, what the dispatch did, and the notifications of the response
process_received_data(w, b, attached, data, env, nimble) ==
    IF ~b.command_callback THEN [called |-> FALSE]
    ELSE
      LET d == process_command_with_response(w, b, attached, data, env) IN
      [called |-> TRUE, d |-> d,
       sent |-> IF d.out # "" THEN send_response(d.ble, d.out, nimble).calls ELSE <<>>]

\* nus_access_cb, a write to the RX characteristic
nus_access_cb(w, b, attached, data, env, nimble) ==
    IF Len(data) > 0 /\ Len(data) <= MAX_DATA_LEN
    THEN process_received_data(w, b, attached, data, env, nimble)
    ELSE [called |-> FALSE]

\* BLEManager::set_command_callback, called by app_main once the BLE manager
\* is attached to the interpreter
set_command_callback ==
    /\ last.track = "none"
    /\ interp.ble_manager
    /\ ~ble.command_callback
    /\ ble' = [ble EXCEPT !.command_callback = TRUE]
    /\ UNCHANGED <<wifi, interp, last, relay>>

\* BLEManager::on_sync_callback: the host and the controller are in sync,
\* advertising starts by itself
on_sync_callback(fields_ok, start_ok) ==
    /\ last.track = "none"
    /\ ~ble.synced
    /\ ble' = start_advertising_internal([ble EXCEPT !.synced = TRUE], fields_ok, start_ok)
    /\ UNCHANGED <<wifi, interp, last, relay>>

\* The connected peer writes data to the RX characteristic. `last` keeps the
\* dispatch, its calls followed by the notifications of the response
NusWrite(data, env, nimble) ==
    LET r == nus_access_cb(wifi, ble, interp.ble_manager, data, env, nimble) IN
    /\ last.track = "none"
    /\ ble.radio_link
    /\ IF r.called
       THEN /\ wifi' = r.d.wifi
            /\ ble' = r.d.ble
            /\ last' = [Record("response", data, r.d) EXCEPT !.calls = @ \o r.sent]
            /\ UNCHANGED <<interp, relay>>
       ELSE UNCHANGED vars

\* The text s four times over
Fourfold(s) == s \o s \o s \o s

\* A write one byte longer than the RX buffer: `h` and 512 blanks
LongWrite == "h" \o Fourfold(Fourfold(Fourfold(Fourfold("  "))))

\* What the peer writes
NusInputs ==
    {"", " ", "help", "h", "status", "list", "scan", "ble_status", "bt",
     "ble_stop", "ble_start", "ble_debug", "ble_name Lab", "foo", LongWrite}

NimbleOutcomes == [mbuf_ok : BOOLEAN, notify_ok : BOOLEAN]

\* The surroundings a write of `data` can meet; a write too long for the RX
\* buffer reaches no handler
NusEnvs(data) ==
    IF Len(data) > MAX_DATA_LEN THEN {QuietEnv}
    ELSE EnvsFor(data, DispatchScans, {}, {<<>>})

PeerWrite ==
    \E data \in NusInputs :
      \E env \in NusEnvs(data), nimble \in NimbleOutcomes :
        NusWrite(data, env, nimble)

NextNus ==
    \/ set_ble_manager
    \/ set_command_callback
    \/ \E fields_ok, start_ok \in BOOLEAN : on_sync_callback(fields_ok, start_ok)
    \/ \E conn_handle \in ConnHandles : GapConnect(conn_handle)
    \/ \E fields_ok, start_ok \in BOOLEAN : GapDisconnect(fields_ok, start_ok)
    \/ GapReturn
    \/ PeerWrite
    \/ ReturnResponse

\* The BLE peer: it connects, writes commands and disconnects
SpecNus == Init /\ [][NextNus]_vars

----------------------------------------------------------------------------
(* The two tasks that call the interpreter: the main task, in the loop of  *)
(* start_interactive_mode, and the NimBLE host task, in the command        *)
(* callback. Neither takes a lock. A dispatch is two steps here, its call  *)
(* and its return; the collaborators change at the return, so two          *)
(* overlapping dispatches take effect in the one or the other order.       *)

TaskInputs == {"status", "scan", "ble_status", "ble_stop"}

\* start_interactive_mode has read a non-empty line and calls process_command
ConsoleCall(command) ==
    /\ interp.inside.console = <<>>
    /\ command # ""
    /\ interp' = [interp EXCEPT !.inside.console = <<command>>]
    /\ UNCHANGED <<wifi, ble, last, relay>>

\* process_command returns to the loop, which prints the prompt
ConsoleReturn(env) ==
    /\ interp.inside.console # <<>>
    /\ LET d == process_command(wifi, ble, interp.ble_manager,
                                interp.inside.console[1], env) IN
       /\ wifi' = d.wifi
       /\ ble' = d.ble
    /\ interp' = [interp EXCEPT !.inside.console = <<>>]
    /\ UNCHANGED <<last, relay>>

\* The host task, free of any handler, gets a write of the connected peer:
\* process_received_data calls the command callback
NusCall(data) ==
    /\ last.track = "none"
    /\ interp.inside.nus = <<>>
    /\ ble.radio_link /\ ble.command_callback
    /\ Len(data) > 0 /\ Len(data) <= MAX_DATA_LEN
    /\ interp' = [interp EXCEPT !.inside.nus = <<data>>]
    /\ UNCHANGED <<wifi, ble, last, relay>>

\* The command callback returns its response to process_received_data
NusReturn(env) ==
    /\ interp.inside.nus # <<>>
    /\ LET d == process_command_with_response(wifi, ble, interp.ble_manager,
                                              interp.inside.nus[1], env) IN
       /\ wifi' = d.wifi
       /\ ble' = d.ble
    /\ interp' = [interp EXCEPT !.inside.nus = <<>>]
    /\ UNCHANGED <<last, relay>>

\* The host task is in no handler
HostTaskFree == last.track = "none" /\ interp.inside.nus = <<>>

NextTasks ==
    \/ set_ble_manager
    \/ set_command_callback
    \/ \E command \in TaskInputs : ConsoleCall(command)
    \/ \E env \in UNION {EnvsFor(c, DispatchScans, {}, {<<>>}) : c \in TaskInputs} :
          ConsoleReturn(env)
    \/ \E data \in TaskInputs : NusCall(data)
    \/ \E env \in UNION {EnvsFor(c, DispatchScans, {}, {<<>>}) : c \in TaskInputs} :
          NusReturn(env)
    \/ HostTaskFree /\ \E fields_ok, start_ok \in BOOLEAN : on_sync_callback(fields_ok, start_ok)
    \/ HostTaskFree /\ \E conn_handle \in ConnHandles : GapConnect(conn_handle)
    \/ HostTaskFree /\ \E fields_ok, start_ok \in BOOLEAN : GapDisconnect(fields_ok, start_ok)
    \/ GapReturn

\* The console loop and the BLE peer side by side
SpecTasks == Init /\ [][NextTasks]_vars

----------------------------------------------------------------------------
(* The relay manager on its own                                            *)

MaxOperations == 5

RelayIds == {"RELAY_1", "RELAY_2", "ALL_RELAYS"}

\* What gpio_config and gpio_set_level may answer for the two pins
GpioOutcomes == [config : [RelayPins -> BOOLEAN], write : [RelayPins -> BOOLEAN]]

\* The same when the pins are configured already
GpioWrites == {gpio \in GpioOutcomes : gpio.config = GpioOk.config}

\* The relay manager as its constructor leaves it, the two pins at any level
InitRelay ==
    /\ wifi = WifiInitial
    /\ ble = BleInitial(TxCharHandle)
    /\ interp = InterpreterInitial
    /\ last = NoDispatch
    /\ relay \in {RelayManager(levels) : levels \in [RelayPins -> {0, 1}]}

\* The manager at the start of a call: no GPIO call made yet
RelayCalled == [relay EXCEPT !.configs = <<>>, !.writes = <<>>]

\* A caller may call: the object lives, and the operation counter is below
\* the bound of the model
RelayCallable == ~relay.destroyed /\ relay.total_operations_ < MaxOperations

\* The call name(relay_id) has returned result
RelayReturns(name, relay_id, result) ==
    /\ relay' = [result.relay EXCEPT !.op = [name |-> name, relay_id |-> relay_id,
                                             ret |-> result.ret]]
    /\ UNCHANGED <<wifi, ble, interp, last>>

RelayInitialize ==
    /\ ~relay.destroyed
    /\ \E gpio \in GpioOutcomes :
          RelayReturns("initialize", "none", initialize(RelayCalled, gpio))

RelaySetState ==
    /\ RelayCallable
    /\ \E relay_id \in RelayIds, state \in {"ON", "OFF"}, gpio \in GpioWrites :
          RelayReturns("set_relay_state", relay_id,
                       set_relay_state(RelayCalled, relay_id, state, gpio))

RelayTurnOn ==
    /\ RelayCallable
    /\ \E relay_id \in RelayIds, gpio \in GpioWrites :
          RelayReturns("turn_on", relay_id, turn_on(RelayCalled, relay_id, gpio))

RelayTurnOff ==
    /\ RelayCallable
    /\ \E relay_id \in RelayIds, gpio \in GpioWrites :
          RelayReturns("turn_off", relay_id, turn_off(RelayCalled, relay_id, gpio))

RelayToggle ==
    /\ RelayCallable
    /\ \E relay_id \in RelayIds, gpio \in GpioWrites :
          RelayReturns("toggle", relay_id, toggle(RelayCalled, relay_id, gpio))

RelayTurnOffAll ==
    /\ RelayCallable
    /\ \E gpio \in GpioWrites :
          RelayReturns("turn_off_all", "ALL_RELAYS", turn_off_all(RelayCalled, gpio))

\* The last owner lets go of the manager (app_main after a failed
\* initialize, or at its end)
RelayDestroy ==
    /\ ~relay.destroyed
    /\ \E gpio \in GpioWrites :
          relay' = [RelayManagerDestructor(RelayCalled, gpio)
                        EXCEPT !.destroyed = TRUE,
                               !.op = [name |-> "~RelayManager", relay_id |-> "none",
                                       ret |-> FALSE]]
    /\ UNCHANGED <<wifi, ble, interp, last>>

NextRelay ==
    \/ RelayInitialize
    \/ RelaySetState
    \/ RelayTurnOn
    \/ RelayTurnOff
    \/ RelayToggle
    \/ RelayTurnOffAll
    \/ RelayDestroy

\* The relay manager under every sequence of calls and GPIO outcomes
SpecRelay == InitRelay /\ [][NextRelay]_vars

----------------------------------------------------------------------------
(* Properties of the dispatchers                                           *)

\* s holds whitespace characters only (the empty string included)
OnlyWhitespace(s) == \A i \in 1..Len(s) : Char(s, i) \in WhitespaceChars

\* sub occurs in s
Contains(s, sub) ==
    \E i \in 1..(Len(s) - Len(sub) + 1) : SubSeq(s, i, i + Len(sub) - 1) = sub

\* The number of calls of op in a call log
CallCount(calls, op) == Cardinality({i \in 1..Len(calls) : calls[i].op = op})

EnterACommand == "Enter a command. Type 'help' for available commands."

\* C1: for every input made only of whitespace characters (the empty string
\* included) process_command_with_response returns exactly the "Enter a
\* command" message, and process_command invokes no handler and no
\* collaborator operation.
C1_WhitespaceOnlyInput ==
    (last.track # "none" /\ OnlyWhitespace(last.command)) =>
        /\ last.handler = "none"
        /\ last.calls = <<>>
        /\ last.changed = {}
        /\ last.track = "response" => last.out = EnterACommand
        /\ last.track = "console" => last.out = ""

\* C1 happens: inputs of several whitespace characters have been dispatched on
\* the response track
C1_Witness ==
    /\ last.track = "response"
    /\ last.command = " \t\r\n"
    /\ last.out = EnterACommand

\* C2: for every input whose first token, lower-cased, is not a keyword or
\* alias of the command table, process_command_with_response returns
\* "Unknown command: '<token>'. Type 'help' for available commands." with the
\* first token in its original case, and no collaborator operation is invoked.
C2_UnknownCommand ==
    LET tokens == parse_command(last.command) IN
    (/\ last.track = "response"
     /\ tokens # <<>>
     /\ ToLower(tokens[1]) \notin TableWords) =>
        /\ last.out = "Unknown command: '" \o tokens[1]
                      \o "'. Type 'help' for available commands."
        /\ last.calls = <<>>
        /\ last.changed = {}

\* C2 happens: a first word with capitals that the table does not hold, with
\* whitespace around it and a keyword after it
C2_Witness ==
    /\ last.track = "response"
    /\ last.command = " Xyz  help "
    /\ last.out = "Unknown command: 'Xyz'. Type 'help' for available commands."

\* The spellings of a row of the command table the inputs hold: the keyword
\* and the alias, in lower case, in upper case and with a capital first letter
SpellingsOf(row) ==
    LET words == {row.keyword, row.alias} \ {""} IN
    words \cup {ToUpper(word) : word \in words} \cup {Capitalized(word) : word \in words}

\* C3: keyword matching is case-insensitive and alias-equivalent on both
\* tracks: for every keyword of the command table, any upper/lower-case
\* spelling of the keyword or of its alias selects the same handler, and
\* against the same collaborator state yields a byte-identical response on the
\* response track.
C3_CaseAndAliasEquivalence ==
    \A row \in CommandTable : \A a, b \in SpellingsOf(row) :
        LET ra == process_command_with_response(wifi, ble, interp.ble_manager, a, QuietEnv)
            rb == process_command_with_response(wifi, ble, interp.ble_manager, b, QuietEnv)
            ca == process_command(wifi, ble, interp.ble_manager, a, QuietEnv)
            cb == process_command(wifi, ble, interp.ble_manager, b, QuietEnv)
        IN  /\ ra.handler = rb.handler
            /\ ca.handler = cb.handler
            /\ ra.out = rb.out

\* C4: every keyword of the command table, relay_on, relay_off, relay_toggle,
\* relay_status and relay_debug included, is recognised by the dispatcher on
\* both tracks: none is ever routed to the unknown-command handler.
C4_EveryKeywordRecognised ==
    (last.track # "none" /\ FirstWord(last.command) \in TableWords) =>
        last.handler \notin {"unknown", "handle_unknown_command"}

\* C5: when no relay collaborator is attached, `relay_on 1` on either track
\* produces the relay "not available" message (whatever its exact wording, it
\* says "not available") and invokes no collaborator operation.
C5_RelayNotAvailable ==
    (last.track # "none" /\ last.command = "relay_on 1" /\ ~interp.relay_manager) =>
        /\ Contains(last.out, "not available")
        /\ last.calls = <<>>
        /\ last.changed = {}

----------------------------------------------------------------------------
(* Properties of the BLE commands                                          *)

\* C6: when the BLE collaborator is not attached, each of ble_start, ble_stop,
\* ble_status, ble_name, ble_scan and ble_debug (and their aliases), with any
\* arguments, returns exactly "BLE manager not available." on the response
\* track, prints that message on the console track, and invokes no
\* collaborator operation.
C6_BleNotAttached ==
    (/\ last.track # "none"
     /\ FirstWord(last.command) \in BleWords
     /\ ~interp.ble_manager) =>
        /\ last.track = "response" => last.out = "BLE manager not available."
        /\ last.track = "console" => last.out = "BLE manager not available.\n"
        /\ last.calls = <<>>
        /\ last.changed = {}

\* C6 happens: a BLE command with an argument, in capitals, arrives on the
\* console before any BLE manager is attached
C6_Witness ==
    /\ last.track = "console"
    /\ last.command = "BSC abc"
    /\ ~interp.ble_manager
    /\ last.out = "BLE manager not available.\n"

DigitChars == {"0", "1", "2", "3", "4", "5", "6", "7", "8", "9"}

HasNonDigit(arg) == \E i \in 1..Len(arg) : Char(arg, i) \notin DigitChars

\* The durations handed to start_scan during the last dispatch, in order
StartScanDurations ==
    LET at == {i \in 1..Len(last.calls) : last.calls[i].op = "start_scan"} IN
    [i \in at |-> last.calls[i].n]

\* The last dispatch selected the ble_scan handler of an attached BLE manager
BleScanDispatched ==
    /\ last.track # "none"
    /\ FirstWord(last.command) \in {"ble_scan", "bsc"}
    /\ interp.ble_manager

\* The argument of the last input ("" when it has none)
LastArgument ==
    LET tokens == parse_command(last.command) IN
    IF Len(tokens) >= 2 THEN tokens[2] ELSE ""

\* C7: on both tracks the ble_scan handler calls start_scan(d) exactly once,
\* with d = n when the argument is the decimal numeral of an integer n with
\* 1 <= n <= 60, and with d = 5 when the argument is absent, is 0, is 61, or
\* contains any non-digit character.
C7_ScanDuration ==
    BleScanDispatched =>
        LET arg == LastArgument
            given == StartScanDurations
        IN  /\ Cardinality(DOMAIN given) = 1
            /\ \A n \in 1..60 :
                  arg = to_string(n) => \A i \in DOMAIN given : given[i] = n
            /\ (arg = "" \/ arg = "0" \/ arg = "61" \/ HasNonDigit(arg)) =>
                  \A i \in DOMAIN given : given[i] = 5

\* C7 happens: the largest accepted duration, on the response track
C7_Witness ==
    /\ BleScanDispatched
    /\ last.track = "response"
    /\ LastArgument = "60"
    /\ CallCount(last.calls, "start_scan") = 1
    /\ \A i \in DOMAIN StartScanDurations : StartScanDurations[i] = 60

RECURSIVE StripZeros(_)
\* A numeral without its leading zeros
StripZeros(arg) ==
    IF arg # "" /\ Head(arg) = "0" THEN StripZeros(Tail(arg)) ELSE arg

\* arg holds decimal digits only and its decimal value is greater than 60
DecimalAbove60(arg) ==
    LET digits == StripZeros(arg) IN
    /\ arg # ""
    /\ ~HasNonDigit(arg)
    /\ \/ Len(digits) >= 3
       \/ Len(digits) = 2 /\ \E n \in 61..99 : digits = to_string(n)

\* C8: for every ble_scan argument made only of decimal digits whose decimal
\* value is greater than 60, of any length (values that do not fit a 32-bit
\* int included), the duration passed to start_scan is 5.
C8_LargeDurationFallsBack ==
    (BleScanDispatched /\ DecimalAbove60(LastArgument)) =>
        \A i \in DOMAIN StartScanDurations : StartScanDurations[i] = 5

\* C9: on the response track, a ble_scan argument that is not composed
\* entirely of decimal digits produces a response that contains a literal
\* "invalid" notice citing the default of 5 seconds that is used instead.
C9_InvalidNoticeInResponse ==
    (BleScanDispatched /\ last.track = "response" /\ HasNonDigit(LastArgument)) =>
        /\ Contains(ToLower(last.out), "invalid")
        /\ Contains(last.out, "default")

----------------------------------------------------------------------------
(* Properties of the WiFi commands                                         *)

PasswordLimitation ==
    "Password-protected networks not yet supported via BLE interface.\n"
    \o "Please use USB Serial JTAG interface for password entry."

\* The SSIDs handed to connect_to_network during the last dispatch, in order
ConnectAttempts ==
    LET at == {i \in 1..Len(last.calls) : last.calls[i].op = "connect_to_network"} IN
    [i \in at |-> last.calls[i].s]

\* The last dispatch selected the connect handler of the response track.
\* Neither the handler nor connect_to_network writes the scan list, and no
\* event is taken before the result is returned, so wifi.scanned_networks is
\* the list the handler read.
ConnectResponded ==
    /\ last.track = "response"
    /\ FirstWord(last.command) \in {"connect", "c"}

\* C10: on the response track, `connect <i>` calls connect_to_network only
\* when the network at index i of the last scan list has authentication mode
\* Open (and then once, with that network's SSID); for every network with any
\* other authentication mode it returns the password-limitation message and
\* makes no connect attempt and no change to WiFi state.
C10_ConnectOpenOnly ==
    ConnectResponded =>
        LET networks == wifi.scanned_networks
            tried == ConnectAttempts
        IN  /\ \A i \in 0..(Len(networks) - 1) :
                  LastArgument = to_string(i) =>
                      IF networks[i + 1].auth_mode = "OPEN"
                      THEN /\ Cardinality(DOMAIN tried) = 1
                           /\ \A k \in DOMAIN tried : tried[k] = networks[i + 1].ssid
                      ELSE /\ last.out = PasswordLimitation
                           /\ DOMAIN tried = {}
                           /\ "wifi" \notin last.changed
            /\ \A k \in DOMAIN tried :
                  \E j \in 1..Len(networks) :
                      networks[j].ssid = tried[k] /\ networks[j].auth_mode = "OPEN"

\* C10 happens: the list holds a protected network first and an open network
\* second, and `connect 0` has been refused
C10_Witness ==
    /\ ConnectResponded
    /\ LastArgument = "0"
    /\ Len(wifi.scanned_networks) = 2
    /\ wifi.scanned_networks[1].auth_mode = "WPA2_PSK"
    /\ wifi.scanned_networks[2].auth_mode = "OPEN"
    /\ last.out = PasswordLimitation
    /\ ConnectAttempts = <<>>

OutOfRange == "Network index out of range. Use 'list' to see available networks."

\* arg holds decimal digits only and its decimal value is at least n (n < 100)
DecimalAtLeast(arg, n) ==
    LET digits == StripZeros(arg) IN
    /\ arg # ""
    /\ ~HasNonDigit(arg)
    /\ \/ Len(digits) >= 3
       \/ \E m \in n..99 : digits = to_string(m)

\* C11: on the response track, with N >= 1 scanned networks, every
\* `connect <i>` whose argument is made only of decimal digits and whose
\* decimal value is >= N (of any length) returns the out-of-range message and
\* never calls connect_to_network.
C11_IndexBeyondList ==
    (/\ ConnectResponded
     /\ Len(wifi.scanned_networks) >= 1
     /\ DecimalAtLeast(LastArgument, Len(wifi.scanned_networks))) =>
        /\ last.out = OutOfRange
        /\ DOMAIN ConnectAttempts = {}

ConnectUsage ==
    "Usage: connect <index>\nExample: connect 0\nUse 'list' to see available networks."

InvalidIndex == "Invalid network index. Please provide a valid number."

\* The last input gave no argument, or one that is not made only of digits
NoIndexGiven ==
    \/ Len(parse_command(last.command)) < 2
    \/ HasNonDigit(LastArgument)

\* C12 as stated: on the response track, `connect` with no argument, and
\* `connect <x>` where x is not made only of decimal digits, are both
\* rejected with the usage message, with no fallback index and no
\* collaborator call (WiFi state unchanged).
C12_UsageForBoth ==
    (ConnectResponded /\ NoIndexGiven) =>
        /\ last.out = ConnectUsage
        /\ last.calls = <<>>
        /\ last.changed = {}

\* C12 as amended: `connect` with no argument is rejected with the usage
\* message, and `connect <x>` where x is not made only of decimal digits with
\* the message "Invalid network index. Please provide a valid number."; in
\* both cases there is no fallback index and no collaborator call (WiFi state
\* unchanged).
C12_RejectedWithoutFallback ==
    (ConnectResponded /\ NoIndexGiven) =>
        /\ last.out = (IF Len(parse_command(last.command)) < 2
                       THEN ConnectUsage ELSE InvalidIndex)
        /\ last.calls = <<>>
        /\ last.changed = {}

\* C12 happens: text in place of the index, while the scan list holds an open
\* network at index 0 that a fallback would reach
C12_Witness ==
    /\ ConnectResponded
    /\ LastArgument = "abc"
    /\ Len(wifi.scanned_networks) >= 1
    /\ wifi.scanned_networks[1].auth_mode = "OPEN"
    /\ last.out = InvalidIndex

\* The last dispatch was `list` or `scan`, on any track, and it rendered the
\* list now stored (a scan that failed renders none)
ListRendered ==
    /\ last.track # "none"
    /\ wifi.scanned_networks # <<>>
    /\ \/ FirstWord(last.command) \in {"list", "l"}
       \/ /\ FirstWord(last.command) \in {"scan", "s"}
          /\ CallCount(last.calls, "get_scanned_networks") = 1

\* The position at which sub first occurs in s, 0 if it does not occur
FirstAt(s, sub) ==
    LET at == {i \in 1..(Len(s) - Len(sub) + 1) : SubSeq(s, i, i + Len(sub) - 1) = sub} IN
    IF at = {} THEN 0 ELSE CHOOSE i \in at : \A j \in at : i <= j

\* What entry k of the list is labelled with: the bracketed index, the SSID,
\* the auth-mode label and the RSSI in dBm
EntryText(networks, k) ==
    "[" \o to_string(k) \o "] " \o networks[k + 1].ssid
    \o " (" \o auth_mode_to_string(networks[k + 1].auth_mode)
    \o ", RSSI: " \o to_string(networks[k + 1].rssi) \o " dBm)"

\* `connect <k>` on the response track, issued now, selects entry k of the
\* list: an open network is the one connect_to_network is called with, a
\* protected network is refused for its password
ConnectSelects(networks, k) ==
    LET r == process_command_with_response(wifi, ble, interp.ble_manager,
                                           "connect " \o to_string(k), QuietEnv)
    IN  IF networks[k + 1].auth_mode = "OPEN"
        THEN \E i \in 1..Len(r.calls) :
                r.calls[i] = Call("connect_to_network", 0, networks[k + 1].ssid)
        ELSE r.out = PasswordLimitation /\ r.wifi = wifi

\* C13 as stated: the `list` and `scan` outputs (of either track) render the
\* collaborator's network list in its stored order, entry k labelled with the
\* bracketed zero-based index k, its SSID, its auth-mode label and its RSSI in
\* dBm; and the index shown for a network is the index with which
\* `connect <index>` selects that same network.
C13_ListRenderingBothTracks ==
    ListRendered =>
        LET networks == wifi.scanned_networks IN
        /\ \A k \in 0..(Len(networks) - 1) :
              /\ Contains(last.out, EntryText(networks, k))
              /\ ConnectSelects(networks, k)
        /\ \A k \in 0..(Len(networks) - 2) :
              FirstAt(last.out, EntryText(networks, k))
                  < FirstAt(last.out, EntryText(networks, k + 1))

RECURSIVE EntryLines(_, _)
\* The entries k, k+1, ... of the list, one line each, in stored order
EntryLines(networks, k) ==
    IF k >= Len(networks) THEN ""
    ELSE "  " \o EntryText(networks, k) \o "\n" \o EntryLines(networks, k + 1)

\* C13 as amended: on the response track the `list` and `scan` outputs render
\* the collaborator's network list in its stored order, entry k labelled with
\* the bracketed zero-based index k, its SSID, its auth-mode label and its
\* RSSI in dBm, and the index shown for a network is the index with which
\* `connect <index>` selects that same network when the list has not changed
\* in between.
C13_ListRenderingResponse ==
    (ListRendered /\ last.track = "response") =>
        LET networks == wifi.scanned_networks
            heading == IF FirstWord(last.command) \in {"list", "l"}
                       THEN "Previously scanned networks:\n\n"
                       ELSE "WiFi scan completed. Found " \o to_string(Len(networks))
                            \o " networks:\n\n"
        IN  /\ last.out = heading \o EntryLines(networks, 0)
                          \o "\nUse 'connect <index>' to connect to a network."
            /\ \A k \in 0..(Len(networks) - 1) : ConnectSelects(networks, k)

\* C13 happens: the list holds HomeNet (-40, WPA2) then CafeWiFi (-70, Open)
\* and `list` has rendered both in that order
C13_Witness ==
    /\ last.track = "response"
    /\ last.command = "list"
    /\ last.out = "Previously scanned networks:\n\n"
                  \o "  [0] HomeNet (WPA2, RSSI: -40 dBm)\n"
                  \o "  [1] CafeWiFi (Open, RSSI: -70 dBm)\n"
                  \o "\nUse 'connect <index>' to connect to a network."

\* The maximal whitespace-free substrings of s, each as <<first, last>>
TokenRuns(s) ==
    { run \in (1..Len(s)) \X (1..Len(s)) :
        /\ run[1] <= run[2]
        /\ \A i \in run[1]..run[2] : Char(s, i) \notin WhitespaceChars
        /\ run[1] = 1 \/ Char(s, run[1] - 1) \in WhitespaceChars
        /\ run[2] = Len(s) \/ Char(s, run[2] + 1) \in WhitespaceChars }

\* C14: the tokenizer never fails: for every command it returns exactly the
\* maximal whitespace-free substrings of the input, in order, every token
\* non-empty and free of whitespace; the empty sequence for an input that is
\* empty or all whitespace; quote characters have no special meaning.
C14_Tokenizer ==
    last.track # "none" =>
        LET command == last.command
            tokens  == parse_command(command)
            runs    == TokenRuns(command)
        IN  /\ \A k \in 1..Len(tokens) :
                  /\ tokens[k] # ""
                  /\ \A i \in 1..Len(tokens[k]) : Char(tokens[k], i) \notin WhitespaceChars
            /\ Len(tokens) = Cardinality(runs)
            /\ \A run \in runs :
                  tokens[Cardinality({other \in runs : other[1] <= run[1]})]
                      = SubSeq(command, run[1], run[2])
            /\ OnlyWhitespace(command) => tokens = <<>>

\* C14 happens: a quoted SSID holding a blank is split at the blank, and an
\* input of whitespace only has been tokenized to nothing
C14_Witness ==
    /\ last.track # "none"
    /\ last.command = "connect \"My Net\" pw"
    /\ parse_command(last.command) = <<"connect", "\"My", "Net\"", "pw">>
    /\ parse_command(" \t\r\n") = <<>>

----------------------------------------------------------------------------
(* Properties of the relay manager                                         *)

\* Every gpio_set_level call of the most recent operation succeeded
WritesSucceeded == \A i \in 1..Len(relay.writes) : relay.writes[i].ok

\* C15: on an initialized relay manager whose GPIO writes succeed, after
\* turn_on(ALL_RELAYS) get_relay_state returns ON for both relays, and after
\* turn_off(ALL_RELAYS) it returns OFF for both, whatever the states before.
C15_AllOnAllOff ==
    (relay.initialized_ /\ relay.op.relay_id = "ALL_RELAYS" /\ WritesSucceeded) =>
        /\ relay.op.name = "turn_on" =>
              /\ get_relay_state(relay, "RELAY_1") = "ON"
              /\ get_relay_state(relay, "RELAY_2") = "ON"
        /\ relay.op.name = "turn_off" =>
              /\ get_relay_state(relay, "RELAY_1") = "OFF"
              /\ get_relay_state(relay, "RELAY_2") = "OFF"

\* C15 happens: turn_on(ALL_RELAYS) has succeeded on relays with different
\* pasts (the first switched once, the second three times)
C15_Witness ==
    /\ relay.op = [name |-> "turn_on", relay_id |-> "ALL_RELAYS", ret |-> TRUE]
    /\ Len(relay.writes) = 2
    /\ relay.relay_1_state_ = "ON" /\ relay.relay_2_state_ = "ON"
    /\ relay.relay_1_switch_count_ = 1
    /\ relay.relay_2_switch_count_ = 3

\* C16: in every step a relay's switch count grows by exactly 1 when the step
\* changes that relay's tracked state and stays as it is otherwise; the
\* counts are zero until the manager is initialized, so a switch count is the
\* number of state changes of its relay since initialization.
C16_SwitchCount ==
    /\ [](~relay.initialized_ =>
              relay.relay_1_switch_count_ = 0 /\ relay.relay_2_switch_count_ = 0)
    /\ [][ /\ relay'.relay_1_switch_count_ = relay.relay_1_switch_count_
                  + (IF relay'.relay_1_state_ # relay.relay_1_state_ THEN 1 ELSE 0)
           /\ relay'.relay_2_switch_count_ = relay.relay_2_switch_count_
                  + (IF relay'.relay_2_state_ # relay.relay_2_state_ THEN 1 ELSE 0) ]_vars

\* C16 happens: a third successful operation on relay 1 has turned it on
\* again where it was on already, and its count stands at 1
C16_Witness ==
    /\ relay.op = [name |-> "turn_on", relay_id |-> "RELAY_1", ret |-> TRUE]
    /\ relay.relay_1_state_ = "ON"
    /\ relay.relay_1_switch_count_ = 1
    /\ relay.relay_2_switch_count_ = 0
    /\ relay.total_operations_ = 3

\* initialize() has run its configuration (it was not initialized before)
FirstInitialize == relay.op.name = "initialize" /\ relay.configs # <<>>

\* C17: when initialize() completes successfully for the first time, both
\* relays have been driven to level 0, both tracked states are OFF and all
\* counters are zero, whatever the levels were before; when either GPIO
\* configuration or either initial write fails, initialize() returns false
\* and the manager stays uninitialized.
C17_InitializeForcesOff ==
    FirstInitialize =>
        IF relay.op.ret
        THEN /\ relay.initialized_
             /\ relay.configs = << [pin |-> RELAY_1_GPIO, ok |-> TRUE],
                                   [pin |-> RELAY_2_GPIO, ok |-> TRUE] >>
             /\ relay.writes = << [pin |-> RELAY_1_GPIO, level |-> 0, ok |-> TRUE],
                                  [pin |-> RELAY_2_GPIO, level |-> 0, ok |-> TRUE] >>
             /\ \A pin \in RelayPins : relay.level[pin] = 0
             /\ relay.relay_1_state_ = "OFF" /\ relay.relay_2_state_ = "OFF"
             /\ relay.relay_1_switch_count_ = 0
             /\ relay.relay_2_switch_count_ = 0
             /\ relay.total_operations_ = 0
        ELSE /\ ~relay.initialized_
             /\ \/ \E i \in 1..Len(relay.configs) : ~relay.configs[i].ok
                \/ \E i \in 1..Len(relay.writes) : ~relay.writes[i].ok

\* C17 happens: the first initialize() has succeeded
C17_Witness ==
    /\ relay.op = [name |-> "initialize", relay_id |-> "none", ret |-> TRUE]
    /\ Len(relay.configs) = 2
    /\ Len(relay.writes) = 2
    /\ relay.initialized_

\* C18: the destruction of the relay manager attempts to drive both relays
\* OFF in every state of the manager, whether or not it was initialized.
C18_DestructionForcesOff ==
    relay.destroyed =>
        \A pin \in RelayPins :
            \E i \in 1..Len(relay.writes) :
                relay.writes[i].pin = pin /\ relay.writes[i].level = 0

\* The tracked state a written level stands for
StateOfLevel(level) == IF level = 1 THEN "ON" ELSE "OFF"

\* C19: an operation on ALL_RELAYS (set, turn_on, turn_off, toggle) of an
\* initialized manager attempts both relays even when the first write fails,
\* returns true exactly when both writes succeeded, leaves a relay whose
\* write failed in its previous tracked state and applies the transition of
\* the other.
C19_AllFanOut ==
    [][ ( /\ relay.initialized_
          /\ relay'.op.relay_id = "ALL_RELAYS"
          /\ relay'.op.name \in {"set_relay_state", "turn_on", "turn_off", "toggle"} ) =>
        LET writes == relay'.writes IN
        /\ Len(writes) = 2
        /\ writes[1].pin = RELAY_1_GPIO /\ writes[2].pin = RELAY_2_GPIO
        /\ relay'.op.ret = (writes[1].ok /\ writes[2].ok)
        /\ relay'.op.name = "turn_on" => writes[1].level = 1 /\ writes[2].level = 1
        /\ relay'.op.name = "turn_off" => writes[1].level = 0 /\ writes[2].level = 0
        /\ relay'.op.name = "toggle" =>
              /\ StateOfLevel(writes[1].level) # relay.relay_1_state_
              /\ StateOfLevel(writes[2].level) # relay.relay_2_state_
        /\ relay'.relay_1_state_ = IF writes[1].ok THEN StateOfLevel(writes[1].level)
                                   ELSE relay.relay_1_state_
        /\ relay'.relay_2_state_ = IF writes[2].ok THEN StateOfLevel(writes[2].level)
                                   ELSE relay.relay_2_state_ ]_vars

\* C19 happens: toggle(ALL_RELAYS) failed on the first relay, which stays
\* OFF, and has turned the second ON
C19_Witness ==
    /\ relay.op = [name |-> "toggle", relay_id |-> "ALL_RELAYS", ret |-> FALSE]
    /\ relay.writes = << [pin |-> RELAY_1_GPIO, level |-> 1, ok |-> FALSE],
                         [pin |-> RELAY_2_GPIO, level |-> 1, ok |-> TRUE] >>
    /\ relay.relay_1_state_ = "OFF"
    /\ relay.relay_2_state_ = "ON"

----------------------------------------------------------------------------
(* Properties of the BLE manager                                           *)

\* C20: in every reachable state in which a peer is connected (is_connected()
\* true) the advertising flag is false: a successful connection event stops
\* the advertising.
C20_ConnectedNotAdvertising == ble_is_connected(ble) => ~ble.advertising

\* C21: after every disconnect event on an initialized BLE manager the
\* connection handle is NONE, is_connected() is false, and advertising has
\* been restarted with no command issued: the advertising flag is true after
\* the event whenever the stack takes the advertising data and accepts the
\* start (it refuses one while the controller already advertises).
C21_DisconnectRestartsAdvertising ==
    [][ \A fields_ok, start_ok \in BOOLEAN :
          (ble.initialized /\ GapDisconnect(fields_ok, start_ok)) =>
              /\ ble'.conn_handle = BLE_HS_CONN_HANDLE_NONE
              /\ ~ble_is_connected(ble')
              /\ (fields_ok /\ start_ok /\ ~ble.radio_adv) =>
                    ble'.advertising /\ ble'.radio_adv ]_vars

\* C21 happens: a disconnect event has been handled and the manager
\* advertises again
C21_Witness ==
    /\ last.handler = "BLE_GAP_EVENT_DISCONNECT"
    /\ ble.conn_handle = BLE_HS_CONN_HANDLE_NONE
    /\ ~ble.connected
    /\ ble.advertising /\ ble.radio_adv

\* The notifications of the last dispatch that the stack took
NotifiedBy(calls) ==
    SelectSeq(calls, LAMBDA c : c.op = "ble_gatts_notify_custom" /\ c.n = 0)

\* A stack call of the last dispatch's send failed: no buffer for the
\* response (no notify call although it is short enough), or the notify
\* call was refused
NimbleFailed ==
    \/ \E i \in 1..Len(last.calls) :
          last.calls[i].op = "ble_gatts_notify_custom" /\ last.calls[i].n # 0
    \/ /\ Len(last.out) <= MAX_DATA_LEN
       /\ CallCount(last.calls, "ble_gatts_notify_custom") = 0

RECURSIVE Payloads(_)
\* The payloads of a sequence of notifications, one after the other
Payloads(calls) == IF calls = <<>> THEN "" ELSE Head(calls).s \o Payloads(Tail(calls))

\* C22: for every command written by a connected peer, the full non-empty
\* response returned by the command callback is sent to the peer over the
\* notify characteristic whatever its length (the stack taking what it is
\* handed): a response longer than MAX_DATA_LEN is fragmented and sent,
\* never dropped.
C22_ResponseSent ==
    (last.track = "response" /\ last.out # "" /\ ble_is_connected(ble) /\ ~NimbleFailed) =>
        /\ Payloads(NotifiedBy(last.calls)) = last.out
        /\ \A i \in 1..Len(last.calls) :
              last.calls[i].op = "ble_gatts_notify_custom" =>
                  Len(last.calls[i].s) <= MAX_DATA_LEN

\* C23: at most one command is being dispatched by the interpreter at any
\* time: no reachable state has the console loop inside process_command and
\* the BLE receive callback inside process_command_with_response at once.
C23_OneDispatchAtATime ==
    ~(interp.inside.console # <<>> /\ interp.inside.nus # <<>>)

\* C24: no outcome of command handling is fatal to the process: for every
\* command and every success or failure of the underlying radio and driver
\* calls the handler returns, and the console loop prints its prompt again
\* and accepts the next command.
C24_NothingFatal ==
    /\ ~wifi.aborted
    /\ last.track \in {"none", "console", "response"}
    /\ last.track = "console" => ENABLED print_prompt

----------------------------------------------------------------------------
(* Properties of the WiFi manager                                          *)

\* The last dispatch, of either track, called connect_to_network and returned
ConnectCalled ==
    /\ last.track \in {"console", "response"}
    /\ CallCount(last.calls, "connect_to_network") >= 1

\* The handler of the last dispatch reports a failed connect
ConnectFailureReported ==
    IF last.track = "console"
    THEN Contains(last.out, "Failed to connect to: ")
    ELSE Contains(last.out, "Failed to connect to ")

\* C25: retry_count_ stays within 0..MAX_RETRY_COUNT, so an association is
\* re-attempted at most MAX_RETRY_COUNT times after station-disconnected
\* events; the failure bit is raised only by a disconnected event that finds
\* the count exhausted, after which connect_to_network returns false; and the
\* interpreter calls connect_to_network once at most, it never retries.
C25_BoundedRetry ==
    /\ [](/\ wifi.retry_count \in 0..MAX_RETRY_COUNT
          /\ "WIFI_FAIL_BIT" \in wifi.bits =>
                wifi.retry_count = MAX_RETRY_COUNT /\ ~wifi.connected
          /\ last.track # "none" => CallCount(last.calls, "connect_to_network") <= 1
          /\ (ConnectCalled /\ "WIFI_FAIL_BIT" \in wifi.bits) => ConnectFailureReported)
    /\ [][ ("WIFI_FAIL_BIT" \notin wifi.bits /\ "WIFI_FAIL_BIT" \in wifi'.bits) =>
              \/ last' = last /\ wifi.retry_count = MAX_RETRY_COUNT
                              /\ wifi' = WifiOnStaDisconnected(wifi)
              \/ last' # last /\ CallCount(last'.calls, "connect_to_network") = 1 ]_vars

\* C25 happens: during a connect the retries were used up, the failure bit
\* is raised and the handler has reported the failure
C25_Witness ==
    /\ ConnectCalled
    /\ "WIFI_FAIL_BIT" \in wifi.bits
    /\ wifi.retry_count = MAX_RETRY_COUNT
    /\ ConnectFailureReported

\* The last connect_to_network call gave up its 30-second wait and nothing
\* has touched the association since: connected_ssid_ is set by that call
\* only (line 226) and emptied by every disconnected event and disconnect,
\* connected_ is still false, neither bit is raised and the radio is still
\* trying to associate.
ConnectTimedOut ==
    /\ ~wifi.aborted
    /\ wifi.connected_ssid # ""
    /\ ~wifi.connected
    /\ wifi.sta = "connecting"
    /\ wifi.bits \cap {"WIFI_CONNECTED_BIT", "WIFI_FAIL_BIT"} = {}

\* C26: after connect_to_network has returned false on its time-out, a step
\* that is no command (an event of the association arriving late) leaves
\* is_connected(), which `status` reads, as it was.
C26_LateCompletionDiscarded ==
    [][ (ConnectTimedOut /\ last.track = "none" /\ last' = last) =>
            is_connected(wifi') = is_connected(wifi) ]_vars

\* The two tracks do the same with `command` in the present state of the
\* collaborators and surroundings `env`: the same collaborator operations
\* with the same arguments in the same order, and the same state afterwards
SameAction(command, env) ==
    LET console  == process_command(wifi, ble, interp.ble_manager, command, env)
        response == process_command_with_response(wifi, ble, interp.ble_manager,
                                                  command, env)
    IN  /\ console.calls = response.calls
        /\ console.wifi = response.wifi
        /\ console.ble = response.ble

\* C27: in every state of the collaborators and for every command, the
\* console-track handler and the response-track handler invoke the same
\* sequence of collaborator operations with the same arguments and leave the
\* collaborators in the same state.
C27_TracksSameAction ==
    \A command \in WifiInputs :
      \A env \in EnvsFor(command, ScanWaits, WifiConnects, {<<>>}) :
        SameAction(command, env)

----------------------------------------------------------------------------
(* Properties of the BLE scan-result list                                  *)

\* `list` begins with the entries of `prefix`, unchanged and in order
IsPrefix(prefix, list) ==
    /\ Len(prefix) <= Len(list)
    /\ SubSeq(list, 1, Len(prefix)) = prefix

\* The step is a dispatch, of either track, whose handler called start_scan
StartScanCalled ==
    /\ last.track = "none"
    /\ last'.track \in {"console", "response"}
    /\ CallCount(last'.calls, "start_scan") = 1

\* The lists a scan that has just started can hold when the handler returns:
\* none of the entries of the scan before, and the advertisers whose
\* discovery events were handled meanwhile
FreshScanResults ==
    { BleOnDiscAll([ble EXCEPT !.scan_results = <<>>], seen).scan_results :
        seen \in BleSeen }

----------------------------------------------------------------------------
(* Properties of the WiFi scan list                                        *)

\* The last dispatch, of either track, called scan_networks, which returned
\* true: the scan-done event was handled within the wait
ScanReturnedTrue ==
    /\ last.track \in {"console", "response"}
    /\ CallCount(last.calls, "scan_networks") = 1
    /\ "WIFI_SCAN_DONE_BIT" \in wifi.bits
    /\ ~wifi.scan_active

----------------------------------------------------------------------------
(* Properties of the ble_scan handlers                                     *)

\* The handler of the last dispatch, of either track, has reported a
\* completed scan
ScanCompletedReported ==
    /\ last.track \in {"console", "response"}
    /\ last.handler \in {"handle_ble_scan", "generate_ble_scan_response"}
    /\ Contains(last.out, "Scan completed. Found ")

\* C30: when a ble_scan handler has reported "Scan completed. Found N
\* devices", the scan it started is over: scanning_ is false and the
\* controller runs no discovery procedure that could still report a device.
C30_ScanCompletedIsOver ==
    ScanCompletedReported => ~ble.scanning /\ ~ble.radio_disc

----------------------------------------------------------------------------
(* Properties of advertising and the device name                           *)

\* The last dispatch, of either track, called start_advertising, which
\* returned true: the handler reports the start as successful
StartAdvertisingReturnedTrue ==
    /\ last.track \in {"console", "response"}
    /\ CallCount(last.calls, "start_advertising") = 1
    /\ Contains(last.out, "BLE advertising started successfully.")

\* C31: start_advertising returns true only with advertising_ true, and
\* returns false when the manager is not initialized or the stack rejects
\* the start (ble_gap_adv_set_fields or ble_gap_adv_start fails).
C31_StartAdvertisingReportsStart ==
    /\ StartAdvertisingReturnedTrue => ble.advertising
    /\ \A fields_ok, start_ok \in BOOLEAN :
         LET r == start_advertising(ble, "ESP32-P4-WiFi", fields_ok, start_ok) IN
         /\ r.ret => r.ble.advertising
         /\ (~ble.advertising /\ (~fields_ok \/ ~start_ok)) => ~r.ret

\* The name given to ble_name in the BLE specification
NewDeviceName == "10"

\* The BLE manager after `ble_name <name>`, `ble_stop` and `ble_start` are
\* dispatched in this order from the present state, the stack refusing
\* nothing; `dispatch` is the dispatcher of one of the tracks
AfterRename(dispatch(_, _, _, _, _)) ==
    LET named   == dispatch(wifi, ble, interp.ble_manager,
                            "ble_name " \o NewDeviceName, QuietEnv)
        stopped == dispatch(named.wifi, named.ble, interp.ble_manager,
                            "ble_stop", QuietEnv)
        started == dispatch(stopped.wifi, stopped.ble, interp.ble_manager,
                            "ble_start", QuietEnv)
    IN  [answered |-> Contains(named.out, "device name")
                      /\ Contains(named.out, "to: " \o NewDeviceName),
         ble |-> started.ble]

\* C32: once ble_name <name> has answered that the name was set, a following
\* ble_stop and ble_start leave <name> as the manager's device name, the one
\* advertised and the one ble_debug shows.
C32_NameTakesEffectOnNextStart ==
    /\ AfterRename(process_command).answered =>
         /\ AfterRename(process_command).ble.device_name = NewDeviceName
         /\ Contains(get_debug_status(AfterRename(process_command).ble),
                     "Device Name: " \o NewDeviceName \o "\n")
    /\ AfterRename(process_command_with_response).answered =>
         /\ AfterRename(process_command_with_response).ble.device_name = NewDeviceName
         /\ Contains(get_debug_status(AfterRename(process_command_with_response).ble),
                     "Device Name: " \o NewDeviceName \o "\n")

----------------------------------------------------------------------------
(* Properties of the command callback                                      *)

\* What a write of `data` by the peer does in the present state
WriteOutcomes(data) ==
    { nus_access_cb(wifi, ble, interp.ble_manager, data, env, nimble) :
        env \in NusEnvs(data), nimble \in NimbleOutcomes }

----------------------------------------------------------------------------
(* Properties of toggle                                                    *)

\* The opposite tracked state
Opposite(state) == IF state = "ON" THEN "OFF" ELSE "ON"

\* The tracked states and switch counts of the manager r
Tracked(r) ==
    [state |-> <<r.relay_1_state_, r.relay_2_state_>>,
     count |-> <<r.relay_1_switch_count_, r.relay_2_switch_count_>>]

\* The relays toggle(relay_id) is to flip, by number
Targets(relay_id) ==
    CASE relay_id = "RELAY_1" -> {1}
      [] relay_id = "RELAY_2" -> {2}
      [] OTHER -> {1, 2}

\* C34: on an initialized manager whose GPIO writes succeed, toggle returns
\* true, gives every relay of its target the opposite of that relay's own
\* state and adds 1 to its switch count, leaves a relay outside the target as
\* it was, and a second toggle of the same target restores the states.
C34_ToggleFlips ==
    /\ [][ ( /\ relay.initialized_
             /\ relay'.op.name = "toggle"
             /\ \A i \in 1..Len(relay'.writes) : relay'.writes[i].ok ) =>
           /\ relay'.op.ret
           /\ \A n \in {1, 2} :
                IF n \in Targets(relay'.op.relay_id)
                THEN /\ Tracked(relay').state[n] = Opposite(Tracked(relay).state[n])
                     /\ Tracked(relay').count[n] = Tracked(relay).count[n] + 1
                ELSE /\ Tracked(relay').state[n] = Tracked(relay).state[n]
                     /\ Tracked(relay').count[n] = Tracked(relay).count[n] ]_vars
    /\ [](relay.initialized_ =>
            \A relay_id \in RelayIds :
              LET once  == toggle(relay, relay_id, GpioOk)
                  twice == toggle(once.relay, relay_id, GpioOk)
              IN  /\ once.ret /\ twice.ret
                  /\ Tracked(twice.relay).state = Tracked(relay).state
                  /\ \A n \in Targets(relay_id) :
                       /\ Tracked(once.relay).state[n] # Tracked(relay).state[n]
                       /\ Tracked(twice.relay).count[n] = Tracked(relay).count[n] + 2)

\* C34 happens: toggle(ALL_RELAYS) has succeeded on relays in different
\* states, which are different still: the first now OFF, the second ON
C34_Witness ==
    /\ relay.op = [name |-> "toggle", relay_id |-> "ALL_RELAYS", ret |-> TRUE]
    /\ WritesSucceeded
    /\ relay.relay_1_state_ = "OFF" /\ relay.relay_2_state_ = "ON"
    /\ relay.relay_1_switch_count_ = 2 /\ relay.relay_2_switch_count_ = 1

----------------------------------------------------------------------------
(* Properties of the WiFi association                                      *)

\* The SSIDs passed to connect_to_network by the last dispatch
ConnectSsids ==
    { last.calls[i].s : i \in { j \in 1..Len(last.calls) :
                                  last.calls[j].op = "connect_to_network" } }

\* C35: whenever is_connected() is true, get_connected_ssid() is not empty,
\* and it is the SSID the most recent connect_to_network call was given.
C35_ConnectedHasSsid ==
    is_connected(wifi) =>
        /\ get_connected_ssid(wifi) # ""
        /\ ConnectCalled => get_connected_ssid(wifi) \in ConnectSsids

\* WiFiManager::disconnect has returned true for an associated or
\* associating station and the station-disconnected event it causes has not
\* been handled yet
DisconnectReturnedTrue == wifi.sta = "leaving" /\ ~wifi.aborted

\* C36: after disconnect() has returned true, the WiFi events delivered
\* before the next command, the station-disconnected event of the disconnect
\* itself among them, leave is_connected() false and start no association
\* attempt.
C36_DisconnectStaysDisconnected ==
    [][ (DisconnectReturnedTrue /\ last.track = "none" /\ last' = last) =>
            /\ ~is_connected(wifi')
            /\ wifi'.sta # "connecting"
            /\ wifi'.retry_count = wifi.retry_count ]_vars

----------------------------------------------------------------------------
(* Properties of the relay manager's state tracking                        *)

\* The pin of relay n
PinOf(n) == IF n = 1 THEN RELAY_1_GPIO ELSE RELAY_2_GPIO

\* The operation that has just returned wrote to the pin of relay n and the
\* write failed
WriteFailed(r, n) ==
    \E i \in 1..Len(r.writes) : r.writes[i].pin = PinOf(n) /\ ~r.writes[i].ok

\* C37: on an initialized manager each relay's tracked state is the level of
\* the last successful write to its pin, which is the level the pin is at;
\* and a set, turn_on, turn_off or toggle whose write to a relay's pin fails
\* returns false and leaves that relay's tracked state and switch count as
\* they were.
C37_TrackedStateIsPinLevel ==
    /\ [](relay.initialized_ =>
            \A n \in {1, 2} :
               Tracked(relay).state[n] = StateOfLevel(relay.level[PinOf(n)]))
    /\ [][ ( /\ relay.initialized_
             /\ relay'.op.name \in {"set_relay_state", "turn_on", "turn_off",
                                    "toggle", "turn_off_all"} ) =>
           \A n \in {1, 2} :
              WriteFailed(relay', n) =>
                 /\ ~relay'.op.ret
                 /\ Tracked(relay').state[n] = Tracked(relay).state[n]
                 /\ Tracked(relay').count[n] = Tracked(relay).count[n]
                 /\ relay'.level[PinOf(n)] = relay.level[PinOf(n)] ]_vars

\* C37 happens: turn_off(RELAY_1) has failed at the GPIO write and relay 1,
\* switched ON before, is still tracked as ON with its pin high
C37_Witness ==
    /\ relay.initialized_
    /\ relay.op = [name |-> "turn_off", relay_id |-> "RELAY_1", ret |-> FALSE]
    /\ relay.writes = << [pin |-> RELAY_1_GPIO, level |-> 0, ok |-> FALSE] >>
    /\ relay.relay_1_state_ = "ON"
    /\ relay.level[RELAY_1_GPIO] = 1
    /\ relay.relay_1_switch_count_ = 1

\* What the manager r holds apart from the record of its latest call
RelayKept(r) ==
    [initialized_ |-> r.initialized_, tracked |-> Tracked(r),
     total_operations_ |-> r.total_operations_, level |-> r.level]

\* C38: on an uninitialized manager set_relay_state, turn_on, turn_off,
\* toggle and turn_off_all return false for every target, make no GPIO call
\* and change no tracked state and no counter, and get_relay_state returns
\* OFF for every target; initialize() on an initialized manager returns true
\* and changes neither states nor counters.
C38_UninitializedRefuses ==
    /\ [](~relay.initialized_ =>
            \A relay_id \in RelayIds : get_relay_state(relay, relay_id) = "OFF")
    /\ [][ /\ ( /\ ~relay.initialized_
                /\ relay'.op.name \in {"set_relay_state", "turn_on", "turn_off",
                                       "toggle", "turn_off_all"} ) =>
              /\ ~relay'.op.ret
              /\ relay'.writes = <<>> /\ relay'.configs = <<>>
              /\ RelayKept(relay') = RelayKept(relay)
           /\ (relay.initialized_ /\ relay'.op.name = "initialize") =>
              /\ relay'.op.ret
              /\ relay'.writes = <<>> /\ relay'.configs = <<>>
              /\ RelayKept(relay') = RelayKept(relay) ]_vars

\* C38 happens: toggle(ALL_RELAYS) was refused by an uninitialized manager
\* whose first pin is high
C38_Witness ==
    /\ ~relay.initialized_
    /\ relay.op = [name |-> "toggle", relay_id |-> "ALL_RELAYS", ret |-> FALSE]
    /\ relay.writes = <<>>
    /\ relay.level[RELAY_1_GPIO] = 1
    /\ relay.total_operations_ = 0

----------------------------------------------------------------------------
(* Properties of start_scan while a scan runs                              *)

\* The step is a dispatch, of either track, of ble_scan with the BLE manager
\* attached
BleScanStep ==
    /\ last.track = "none"
    /\ last'.handler \in {"handle_ble_scan", "generate_ble_scan_response"}
    /\ interp.ble_manager

\* C39: start_scan returns false and changes nothing when a scan is in
\* progress or the manager is not initialized; scanning_, once set, is
\* cleared only by the scan-complete event or a stop_scan that succeeds; so
\* a ble_scan dispatched while it is set answers "Failed to start BLE scan."
\* and leaves the scan results and the flag as they were.
C39_StartScanRefusedWhileScanning ==
    /\ [](\A duration \in {1, 5}, disc_ok \in BOOLEAN :
            LET off == [ble EXCEPT !.initialized = FALSE] IN
            /\ ble.scanning =>
                 start_scan(ble, duration, disc_ok) = [ble |-> ble, ret |-> FALSE]
            /\ start_scan(off, duration, disc_ok) = [ble |-> off, ret |-> FALSE]
            /\ ble.scanning =>
                 LET stopped == stop_scan(ble, ~disc_ok) IN
                 stopped.ble.scanning = ~stopped.ret)
    /\ [][ /\ (ble.scanning /\ ~ble'.scanning) =>
                last'.handler = "BLE_GAP_EVENT_DISC_COMPLETE"
           /\ (ble.scanning /\ BleScanStep) =>
                /\ Contains(last'.out, "Failed to start BLE scan.")
                /\ ~Contains(last'.out, "Scan completed.")
                /\ ble'.scanning
                /\ ble'.scan_results = ble.scan_results ]_vars

\* C39 happens: ble_scan was dispatched during a scan that had found a
\* device; it answered with the failure, the scan goes on and the entry is
\* still in the list
C39_Witness ==
    /\ last.handler \in {"handle_ble_scan", "generate_ble_scan_response"}
    /\ Contains(last.out, "Failed to start BLE scan.")
    /\ "ble" \notin last.changed
    /\ ble.scanning /\ ble.radio_disc
    /\ Len(ble.scan_results) = 1

----------------------------------------------------------------------------
(* Properties of the BLE manager's flags                                   *)

\* A BLEManager as its constructor leaves it, initialize() not yet called or
\* failed, in the present surroundings of the controller
BleConstructed ==
    [ble EXCEPT !.initialized = FALSE, !.advertising = FALSE, !.connected = FALSE,
                !.scanning = FALSE, !.conn_handle = BLE_HS_CONN_HANDLE_NONE,
                !.nus_tx_char_handle = 0, !.scan_results = <<>>]

\* None of the three flags is set in b
NoFlag(b) == ~b.advertising /\ ~b.scanning /\ ~b.connected

=============================================================================
